---- MODULE Spec2Model ----
(***************************************************************************)
(* Model of the chantier-api aggregation cascade.                          *)
(*                                                                         *)
(* Chantier > Lot > Tache > HeureTravail.  Saving or deleting an           *)
(* HeureTravail recomputes Tache.heures_reelles, which in turn recomputes  *)
(* Chantier.cout_reel.                                                     *)
(*                                                                         *)
(* Units.  Decimal columns are integers scaled by their decimal_places:    *)
(*   HeureTravail.heures   decimal_places=2  -> hundredths of an hour      *)
(*   Tache.heures_reelles  decimal_places=1  -> tenths of an hour          *)
(*   Tache.taux_horaire    decimal_places=2  -> cents per hour             *)
(*   Chantier.cout_reel    decimal_places=2  -> cents                      *)
(* An optional value (a nullable column, a key a request body may omit)    *)
(* is a set with at most one element.                                      *)
(***************************************************************************)
EXTENDS Integers, FiniteSets, Sequences, TLC

\* ------------------------------------------------------------------ bounds
\* number of HeureTravail rows ever inserted (primary keys 1..MaxHeures)
MaxHeures == 2

Chantiers == {1, 2}
LotIds == {1, 2, 3}
\* lots 1 and 2 belong to chantier 1, lot 3 to chantier 2
LotChantier(l) == IF l = 3 THEN 2 ELSE 1

\* primary keys of Tache
TacheIds == {1, 2}
HeureIds == 1..MaxHeures

\* hourly rates a task is given: 100.00 and 10.25
TauxHoraires == {10000, 1025}
\* hours a request carries: -5.00, 0.00, 0.25, 24.00, 24.01
HeuresInputs == {-500, 0, 25, 2400, 2401}
\* hours given to HeureTravail.objects.create, which runs no validator
HeuresModele == {-500, 25}
\* database back ends settings.DATABASES can select
Engines == {"sqlite3", "postgresql"}
\* hours the concurrent requests carry: 6.00 and 24.00
HeuresConc == {600, 2400}
\* the requests handled at the same time
Procs == {1, 2}

VARIABLES
    db_engine,   \* settings.DATABASES['default']['ENGINE']
    db,          \* the tables: lot, tache, heuretravail, chantier
    seq,         \* the auto-increment primary-key sequences
    response,    \* the request last handled and the status it was answered
    procs        \* requests in flight, statement by statement

vars == <<db_engine, db, seq, response, procs>>

\* ------------------------------------------------------------- arithmetic
Abs(n) == IF n < 0 THEN 0 - n ELSE n

\* n / d rounded to an integer the way the column's scale forces it:
\* Python's decimal quantize rounds half to even, PostgreSQL's numeric
\* rounds half away from zero.
RoundDiv(n, d, engine) ==
    LET a == Abs(n)
        q == a \div d
        r == a % d
        up == \/ 2 * r > d
              \/ /\ 2 * r = d
                 /\ (engine = "postgresql" \/ q % 2 = 1)
        m == IF up THEN q + 1 ELSE q
    IN  IF n < 0 THEN 0 - m ELSE m

RECURSIVE SumOver(_, _)
SumOver(S, f) ==
    IF S = {} THEN 0
    ELSE LET x == CHOOSE y \in S : TRUE
         IN  f[x] + SumOver(S \ {x}, f)

\* ----------------------------------------------------------------- models
\* tache.heures_travail : the entries whose foreign key is the task
heures_travail(d, t) == {h \in DOMAIN d.heuretravail : d.heuretravail[h].tache = t}

\* lot.taches : the tasks whose foreign key is the lot
lot_taches(d, l) == {t \in DOMAIN d.tache : d.tache[t].lot = l}

\* chantier.lots, then lot.taches for each: every task under the chantier
chantier_taches(d, c) ==
    {t \in DOMAIN d.tache : d.tache[t].lot \in d.lot /\ LotChantier(d.tache[t].lot) = c}

\* the chantier a task hangs under: tache.lot.chantier
tache_chantier(d, t) == LotChantier(d.tache[t].lot)

\* aggregate(Sum('heures')) or 0, in hundredths of an hour
SumHeures(d, t) ==
    SumOver(heures_travail(d, t), [h \in DOMAIN d.heuretravail |-> d.heuretravail[h].heures])

\* Tache.calculer_cout_heures: heures_reelles * taux_horaire, in thousandths
calculer_cout_heures(tache) == tache.heures_reelles * tache.taux_horaire

\* the total Chantier.calculer_cout_reel accumulates, in thousandths
TotalCout(d, c) ==
    SumOver(chantier_taches(d, c), [t \in DOMAIN d.tache |-> calculer_cout_heures(d.tache[t])])

\* Chantier.calculer_cout_reel: total written to the cout_reel column (cents)
calculer_cout_reel(d, c, engine) ==
    [d EXCEPT !.chantier[c].cout_reel = RoundDiv(TotalCout(d, c), 10, engine)]

\* Tache.calculer_heures_reelles: the sum is written to the heures_reelles
\* column (tenths), then the parent chantier's cost is recomputed
calculer_heures_reelles(d, t, engine) ==
    LET d1 == [d EXCEPT !.tache[t].heures_reelles = RoundDiv(SumHeures(d, t), 10, engine)]
    IN  calculer_cout_reel(d1, tache_chantier(d1, t), engine)

\* the post_save receiver of HeureTravail
maj_heures_tache(d, t, engine) == calculer_heures_reelles(d, t, engine)

\* HeureTravail.save: the row is written, post_save fires, then the task's
\* hours are recomputed once more
HeureTravail_save(d, h, row, engine) ==
    LET d1 == [d EXCEPT !.heuretravail =
                   [k \in DOMAIN d.heuretravail \cup {h} |->
                       IF k = h THEN row ELSE d.heuretravail[k]]]
        d2 == maj_heures_tache(d1, row.tache, engine)
    IN  calculer_heures_reelles(d2, row.tache, engine)

\* HeureTravail.delete: the row is removed, then the task is recomputed
HeureTravail_delete(d, h, engine) ==
    LET t  == d.heuretravail[h].tache
        d1 == [d EXCEPT !.heuretravail =
                   [k \in DOMAIN d.heuretravail \ {h} |-> d.heuretravail[k]]]
    IN  calculer_heures_reelles(d1, t, engine)

\* on_delete=CASCADE: the rows of the tasks in T and of their entries are
\* removed by the collector; no model delete() runs, nothing is recomputed
CascadeTaches(d, T) ==
    LET keepT == DOMAIN d.tache \ T
        keepH == {h \in DOMAIN d.heuretravail : d.heuretravail[h].tache \notin T}
    IN  [d EXCEPT !.tache = [t \in keepT |-> d.tache[t]],
                  !.heuretravail = [h \in keepH |-> d.heuretravail[h]]]

\* ------------------------------------------------------------ serializers
\* HeuresTravailSerializer.validate_heures
validate_heures(value) == ~(value <= 0) /\ ~(value > 2400)

\* the 'tache' field of HeuresTravailSerializer: a writable primary-key
\* field of a non-null foreign key, so required (unless the update is
\* partial) and naming an existing task
validate_tache(d, body_tache, partial) ==
    IF body_tache = {} THEN partial
    ELSE body_tache \subseteq DOMAIN d.tache

\* the 'heures' field: required unless the update is partial, then
\* HeuresTravailSerializer.validate_heures on the value
validate_body_heures(body_heures, partial) ==
    IF body_heures = {} THEN partial
    ELSE \A value \in body_heures : validate_heures(value)

\* HeuresTravailSerializer.is_valid
is_valid(d, body_tache, body_heures, partial) ==
    validate_tache(d, body_tache, partial) /\ validate_body_heures(body_heures, partial)

\* TacheSerializer: 'heures_reelles' is the stored column, read as it is
TacheSerializer_heures_reelles(d, t) == d.tache[t].heures_reelles

\* ChantiersSerializer: 'cout_reel' is the stored column, read as it is
ChantiersSerializer_cout_reel(d, c) == d.chantier[c].cout_reel

\* ---------------------------------------------------------------- requests
\* what is kept of the last request: the endpoint, the status answered, the
\* task of the URL, the entry written or deleted, and (for the hour-logging
\* endpoint of a task) the body's heures and tache
NoResponse == [op |-> "none", status |-> {}, tache |-> {}, heure |-> {},
               heures |-> {}, body_tache |-> {}]

Resp(op, status, tache, heure, heures, body_tache) ==
    [op |-> op, status |-> {status}, tache |-> tache, heure |-> heure,
     heures |-> heures, body_tache |-> body_tache]

\* a body's 'tache' key: absent, or a primary key
BodyTaches == {{}} \cup {{t} : t \in TacheIds}
\* the 'heures' key of an update's body: absent, 0.00, 0.25 or 24.00
BodyHeures == {{}} \cup {{x} : x \in {0, 25, 2400}}

\* the hierarchy the requests work on: task 1 in lot 1 at 100.00, task 2 in
\* lot 2 (same chantier) or lot 3 (the other chantier) at 10.25, no entry
InitDb(l2) ==
    [lot |-> LotIds,
     tache |-> [t \in {1, 2} |->
                  IF t = 1
                  THEN [lot |-> 1, taux_horaire |-> 10000, heures_reelles |-> 0]
                  ELSE [lot |-> l2, taux_horaire |-> 1025, heures_reelles |-> 0]],
     heuretravail |-> [h \in {} |-> {}],
     chantier |-> [c \in Chantiers |-> [cout_reel |-> 0]]]

Init ==
    /\ db_engine \in Engines
    /\ \E l2 \in {2, 3} : db = InitDb(l2)
    /\ seq = [tache |-> 3, heuretravail |-> 1]
    /\ response = NoResponse
    /\ procs = <<>>

\* POST /api/v1/taches/{id}/heures/ : the body is validated by
\* HeuresTravailSerializer, then saved with tache = the task of the URL
TachesViewSet_heures ==
    \E t \in DOMAIN db.tache, body_tache \in BodyTaches, heures \in HeuresInputs :
        IF is_valid(db, body_tache, {heures}, FALSE)
        THEN /\ seq.heuretravail <= MaxHeures
             /\ db' = HeureTravail_save(db, seq.heuretravail,
                                        [tache |-> t, heures |-> heures], db_engine)
             /\ seq' = [seq EXCEPT !.heuretravail = @ + 1]
             /\ response' = Resp("taches_heures", 201, {t}, {seq.heuretravail},
                                 {heures}, body_tache)
             /\ UNCHANGED <<db_engine, procs>>
        ELSE /\ response' = Resp("taches_heures", 400, {t}, {}, {heures}, body_tache)
             /\ UNCHANGED <<db_engine, db, seq, procs>>

\* POST /api/v1/heures/ : ModelViewSet.create with HeuresTravailSerializer
HeuresTravailViewSet_create ==
    \E body_tache \in BodyTaches, heures \in HeuresInputs :
        IF is_valid(db, body_tache, {heures}, FALSE)
        THEN /\ seq.heuretravail <= MaxHeures
             /\ \E t \in body_tache :
                  /\ db' = HeureTravail_save(db, seq.heuretravail,
                                             [tache |-> t, heures |-> heures], db_engine)
                  /\ response' = Resp("heures_create", 201, {}, {seq.heuretravail}, {}, {})
             /\ seq' = [seq EXCEPT !.heuretravail = @ + 1]
             /\ UNCHANGED <<db_engine, procs>>
        ELSE /\ response' = Resp("heures_create", 400, {}, {}, {}, {})
             /\ UNCHANGED <<db_engine, db, seq, procs>>

\* PUT (partial = FALSE) or PATCH (partial = TRUE) /api/v1/heures/{id}/ :
\* the keys present in the body replace the row's values, then the row is saved
HeuresTravailViewSet_update ==
    \E h \in DOMAIN db.heuretravail, body_tache \in BodyTaches,
       body_heures \in BodyHeures, partial \in BOOLEAN :
        LET old == db.heuretravail[h]
            row == [tache |-> IF body_tache = {} THEN old.tache
                              ELSE CHOOSE t \in body_tache : TRUE,
                    heures |-> IF body_heures = {} THEN old.heures
                               ELSE CHOOSE x \in body_heures : TRUE]
        IN  IF is_valid(db, body_tache, body_heures, partial)
            THEN /\ db' = HeureTravail_save(db, h, row, db_engine)
                 /\ response' = Resp("heures_update", 200, {}, {h}, {}, {})
                 /\ UNCHANGED <<db_engine, seq, procs>>
            ELSE /\ response' = Resp("heures_update", 400, {}, {h}, {}, {})
                 /\ UNCHANGED <<db_engine, db, seq, procs>>

\* DELETE /api/v1/heures/{id}/ : perform_destroy calls instance.delete()
HeuresTravailViewSet_destroy ==
    \E h \in DOMAIN db.heuretravail :
        /\ db' = HeureTravail_delete(db, h, db_engine)
        /\ response' = Resp("heures_destroy", 204, {}, {h}, {}, {})
        /\ UNCHANGED <<db_engine, seq, procs>>

\* HeureTravail.objects.create(tache=..., heures=...) : Model.save runs no
\* field validator, the row is inserted as given
HeureTravail_objects_create ==
    \E t \in DOMAIN db.tache, heures \in HeuresModele :
        /\ seq.heuretravail <= MaxHeures
        /\ db' = HeureTravail_save(db, seq.heuretravail,
                                   [tache |-> t, heures |-> heures], db_engine)
        /\ seq' = [seq EXCEPT !.heuretravail = @ + 1]
        /\ response' = Resp("objects_create", 201, {}, {seq.heuretravail}, {}, {})
        /\ UNCHANGED <<db_engine, procs>>

Next ==
    \/ HeuresTravailViewSet_create
    \/ HeuresTravailViewSet_update
    \/ HeuresTravailViewSet_destroy
    \/ HeureTravail_objects_create

Spec == Init /\ [][Next]_vars

\* ------------------------------------------------- tasks and lots requests
\* POST /api/v1/taches/ : heures_reelles is read-only, the row gets its default
TachesViewSet_create ==
    \E l \in db.lot, taux \in TauxHoraires :
        /\ seq.tache \in TacheIds
        /\ db' = [db EXCEPT !.tache =
                     [t \in DOMAIN db.tache \cup {seq.tache} |->
                         IF t = seq.tache
                         THEN [lot |-> l, taux_horaire |-> taux, heures_reelles |-> 0]
                         ELSE db.tache[t]]]
        /\ seq' = [seq EXCEPT !.tache = @ + 1]
        /\ response' = Resp("taches_create", 201, {seq.tache}, {}, {}, {})
        /\ UNCHANGED <<db_engine, procs>>

\* PUT/PATCH /api/v1/taches/{id}/ : lot and taux_horaire are writable,
\* heures_reelles is not; Tache.save recomputes nothing
TachesViewSet_update ==
    \E t \in DOMAIN db.tache, l \in db.lot, taux \in TauxHoraires :
        /\ db' = [db EXCEPT !.tache[t].lot = l, !.tache[t].taux_horaire = taux]
        /\ response' = Resp("taches_update", 200, {t}, {}, {}, {})
        /\ UNCHANGED <<db_engine, seq, procs>>

\* DELETE /api/v1/taches/{id}/
TachesViewSet_destroy ==
    \E t \in DOMAIN db.tache :
        /\ db' = CascadeTaches(db, {t})
        /\ response' = Resp("taches_destroy", 204, {t}, {}, {}, {})
        /\ UNCHANGED <<db_engine, seq, procs>>

\* DELETE /api/v1/lots/{id}/
LotsViewSet_destroy ==
    \E l \in db.lot :
        /\ db' = [CascadeTaches(db, lot_taches(db, l)) EXCEPT !.lot = @ \ {l}]
        /\ response' = Resp("lots_destroy", 204, {}, {}, {}, {})
        /\ UNCHANGED <<db_engine, seq, procs>>

\* the hour-entry requests together with the requests on tasks and lots
NextTaches ==
    \/ HeuresTravailViewSet_create
    \/ TachesViewSet_create
    \/ TachesViewSet_update
    \/ TachesViewSet_destroy
    \/ LotsViewSet_destroy

\* one task so far (task 1 in lot 1 at 100.00); the next one gets key 2
InitTaches ==
    /\ db_engine \in Engines
    /\ db = [InitDb(2) EXCEPT !.tache = [t \in {1} |-> InitDb(2).tache[t]]]
    /\ seq = [tache |-> 2, heuretravail |-> 1]
    /\ response = NoResponse
    /\ procs = <<>>

SpecTaches == InitTaches /\ [][NextTaches]_vars

\* the hour-logging endpoint of a task, with the deletion of entries
NextHeures ==
    \/ TachesViewSet_heures
    \/ HeuresTravailViewSet_destroy

SpecHeures == Init /\ [][NextHeures]_vars

\* ------------------------------------------- requests, statement by statement
\* No view or model opens a transaction and settings.py sets no
\* ATOMIC_REQUESTS: each ORM statement of a request commits on its own, and
\* the statements of two requests interleave.  A request is
\*   write   INSERT/UPDATE or DELETE of the HeureTravail row
\*   sum     heures_travail.aggregate(Sum('heures'))
\*   heures  UPDATE tache SET heures_reelles
\*   taches  the reads of chantier.lots / lot.taches and their costs
\*   cout    UPDATE chantier SET cout_reel
\* HeureTravail.save runs sum..cout twice (post_save receiver, then the call
\* in save), HeureTravail.delete once.
Idle == [pc |-> "idle", tache |-> {}, rounds |-> {}, total |-> {}]

\* two tasks of chantier 1 (lot 1 at 100.00, lot 2 at 10.25), no entry
InitConc ==
    /\ db_engine \in Engines
    /\ db = InitDb(2)
    /\ seq = [tache |-> 3, heuretravail |-> 1]
    /\ response = NoResponse
    /\ procs = [p \in Procs |-> Idle]

\* super().save(): the row is inserted
Save_insert(p) ==
    \E t \in DOMAIN db.tache, heures \in HeuresConc :
        /\ procs[p].pc = "idle"
        /\ seq.heuretravail <= MaxHeures
        /\ db' = [db EXCEPT !.heuretravail =
                     [k \in DOMAIN db.heuretravail \cup {seq.heuretravail} |->
                         IF k = seq.heuretravail
                         THEN [tache |-> t, heures |-> heures]
                         ELSE db.heuretravail[k]]]
        /\ seq' = [seq EXCEPT !.heuretravail = @ + 1]
        /\ procs' = [procs EXCEPT ![p] =
                        [pc |-> "sum", tache |-> {t}, rounds |-> {2}, total |-> {}]]
        /\ UNCHANGED <<db_engine, response>>

\* super().delete(): the row is removed
Delete_row(p) ==
    \E h \in DOMAIN db.heuretravail :
        /\ procs[p].pc = "idle"
        /\ db' = [db EXCEPT !.heuretravail =
                     [k \in DOMAIN db.heuretravail \ {h} |-> db.heuretravail[k]]]
        /\ procs' = [procs EXCEPT ![p] =
                        [pc |-> "sum", tache |-> {db.heuretravail[h].tache},
                         rounds |-> {1}, total |-> {}]]
        /\ UNCHANGED <<db_engine, seq, response>>

\* calculer_heures_reelles, line 358: the aggregate is read
Step_sum(p) ==
    /\ procs[p].pc = "sum"
    /\ \E t \in procs[p].tache :
         procs' = [procs EXCEPT ![p].pc = "heures", ![p].total = {SumHeures(db, t)}]
    /\ UNCHANGED <<db_engine, db, seq, response>>

\* calculer_heures_reelles, lines 359-360: the total read is written
Step_heures(p) ==
    /\ procs[p].pc = "heures"
    /\ \E t \in procs[p].tache, total \in procs[p].total :
         db' = [db EXCEPT !.tache[t].heures_reelles = RoundDiv(total, 10, db_engine)]
    /\ procs' = [procs EXCEPT ![p].pc = "taches", ![p].total = {}]
    /\ UNCHANGED <<db_engine, seq, response>>

\* calculer_cout_reel, lines 167-170: the tasks are read and their costs added
Step_taches(p) ==
    /\ procs[p].pc = "taches"
    /\ \E t \in procs[p].tache :
         procs' = [procs EXCEPT ![p].pc = "cout",
                                ![p].total = {TotalCout(db, tache_chantier(db, t))}]
    /\ UNCHANGED <<db_engine, db, seq, response>>

\* calculer_cout_reel, lines 171-172: the total read is written; the request
\* is done unless save has its second recomputation to run
Step_cout(p) ==
    /\ procs[p].pc = "cout"
    /\ \E t \in procs[p].tache, total \in procs[p].total :
         db' = [db EXCEPT !.chantier[tache_chantier(db, t)].cout_reel =
                              RoundDiv(total, 10, db_engine)]
    /\ procs' = [procs EXCEPT
                    ![p].pc = IF procs[p].rounds = {2} THEN "sum" ELSE "done",
                    ![p].rounds = {1},
                    ![p].total = {}]
    /\ UNCHANGED <<db_engine, seq, response>>

\* the worker dies (process killed, connection lost) between two statements
Crash(p) ==
    /\ procs[p].pc \in {"sum", "heures", "taches", "cout"}
    /\ procs' = [procs EXCEPT ![p].pc = "crashed"]
    /\ UNCHANGED <<db_engine, db, seq, response>>

NextConc ==
    \E p \in Procs :
        \/ Save_insert(p)
        \/ Delete_row(p)
        \/ Step_sum(p)
        \/ Step_heures(p)
        \/ Step_taches(p)
        \/ Step_cout(p)
        \/ Crash(p)

SpecConc == InitConc /\ [][NextConc]_vars

\* ------------------------------------------------------------------ claims
\* statuses of a request that went through
Succes == {{200}, {201}, {204}}

\* the tasks the entry h is attached to before or after the step
TachesTouchees(h) ==
    {db.heuretravail[k].tache : k \in {h} \cap DOMAIN db.heuretravail}
        \cup {db'.heuretravail[k].tache : k \in {h} \cap DOMAIN db'.heuretravail}

\* C1: in every state reached by hour-entry creates, updates and deletes, each
\* task's stored heures_reelles is the sum of the hours of the entries attached
\* to it (0 without entries).  The sum is read at the one-decimal precision of
\* the column, so that a violation is a missing recomputation, not a rounding.
C1_HeuresReellesEgalSomme ==
    \A t \in DOMAIN db.tache :
        db.tache[t].heures_reelles = RoundDiv(SumHeures(db, t), 10, db_engine)

\* C2: right after a completed hour-entry create, update or delete, the stored
\* cout_reel of the chantier of every task the entry was or is attached to
\* equals the sum of heures_reelles * taux_horaire over the chantier's tasks.
C2_CoutReelApresMutation ==
    [][(/\ response'.op \in {"heures_create", "heures_update", "heures_destroy"}
        /\ response'.status \in Succes)
       => \A h \in response'.heure : \A t \in TachesTouchees(h) :
              db'.chantier[tache_chantier(db', t)].cout_reel * 10
                  = TotalCout(db', tache_chantier(db', t))]_vars

\* C3: in every state reached by requests on tasks, lots and hour entries,
\* each chantier's stored cout_reel is the sum of the costs of its tasks (read
\* at the two-decimal precision of the column).
C3_CoutReelToujoursSomme ==
    \A c \in Chantiers :
        db.chantier[c].cout_reel = RoundDiv(TotalCout(db, c), 10, db_engine)

\* C4: once two requests on the hour entries of the same task have both
\* completed, the task's heures_reelles is the sum of its entries.
C4_MemeTacheSerialisable ==
    (/\ \A p \in Procs : procs[p].pc = "done"
     /\ \A p, q \in Procs : procs[p].tache = procs[q].tache)
    => \A t \in DOMAIN db.tache : db.tache[t].heures_reelles * 10 = SumHeures(db, t)

\* C5: once two requests on the hour entries of two different tasks of one
\* chantier have both completed, the chantier's cout_reel is the sum of
\* heures_reelles * taux_horaire over its tasks.
C5_TachesDistinctesCoutCoherent ==
    (/\ \A p \in Procs : procs[p].pc = "done"
     /\ \E p, q \in Procs : procs[p].tache # procs[q].tache)
    => \A c \in Chantiers : db.chantier[c].cout_reel * 10 = TotalCout(db, c)

\* C6: when a request stops between its entry write and its rollup writes
\* (nothing else in flight), what is then read of the task and of the chantier
\* reflects the entries: heures_reelles is their sum, cout_reel the sum of the
\* costs.
C6_CascadeAtomique ==
    \A p \in Procs :
        (/\ procs[p].pc = "crashed"
         /\ \A q \in Procs \ {p} : procs[q].pc = "idle")
        => \A t \in procs[p].tache :
              /\ TacheSerializer_heures_reelles(db, t) * 10 = SumHeures(db, t)
              /\ ChantiersSerializer_cout_reel(db, tache_chantier(db, t)) * 10
                     = TotalCout(db, tache_chantier(db, t))

\* C7: deleting an entry sets its task's heures_reelles to the sum of the
\* remaining entries (0 when none remains), the task's cost to that sum times
\* the rate, and lowers the chantier's cout_reel by the deleted hours times the
\* task's rate.  (hundredths of an hour * cents = 1/100 of a cent)
C7_SuppressionRecalcule ==
    [][response'.op = "heures_destroy"
       => \A h \in response'.heure \cap DOMAIN db.heuretravail :
            LET t == db.heuretravail[h].tache
                c == tache_chantier(db, t)
            IN  /\ db'.tache[t].heures_reelles * 10 = SumHeures(db', t)
                /\ (heures_travail(db', t) = {} => db'.tache[t].heures_reelles = 0)
                /\ calculer_cout_heures(db'.tache[t]) * 10
                       = SumHeures(db', t) * db'.tache[t].taux_horaire
                /\ (db.chantier[c].cout_reel - db'.chantier[c].cout_reel) * 100
                       = db.heuretravail[h].heures * db.tache[t].taux_horaire]_vars

\* C8: the hour-logging endpoint of a task answers 400 when heures <= 0 or
\* heures > 24 and 201 when 0 < heures <= 24; a request answered 400 leaves the
\* tables as they were, a request answered 201 has inserted the entry and
\* recomputed the task's hours and the chantier's cost from it.
C8_HeuresValidees ==
    [][response'.op = "taches_heures"
       => /\ \A x \in response'.heures :
                /\ (x <= 0 \/ x > 2400) => response'.status = {400}
                /\ (0 < x /\ x <= 2400) => response'.status = {201}
          /\ response'.status = {400} => db' = db
          /\ response'.status = {201} =>
                \A t \in response'.tache, h \in response'.heure :
                    /\ h \in DOMAIN db'.heuretravail \ DOMAIN db.heuretravail
                    /\ db' = calculer_heures_reelles(
                                 [db' EXCEPT !.tache = db.tache, !.chantier = db.chantier],
                                 t, db_engine)]_vars

\* C9: a POST on a task's hour-logging endpoint whose body has valid hours and
\* no 'tache' key is answered 201, and the entry a 201 reports is attached to
\* the task of the URL, whatever the body's 'tache'.
C9_TacheDeLUrl ==
    response.op = "taches_heures"
    => /\ (/\ response.body_tache = {}
           /\ \A x \in response.heures : validate_heures(x))
          => response.status = {201}
       /\ response.status = {201}
          => \A h \in response.heure :
                /\ h \in DOMAIN db.heuretravail
                /\ db.heuretravail[h].tache \in response.tache

\* C10: every stored entry has 0 < heures <= 24, and no task's heures_reelles
\* nor chantier's cout_reel is negative (a model-level create with negative
\* hours persists nothing).
C10_HeuresPositives ==
    /\ \A h \in DOMAIN db.heuretravail :
          0 < db.heuretravail[h].heures /\ db.heuretravail[h].heures <= 2400
    /\ \A t \in DOMAIN db.tache : db.tache[t].heures_reelles >= 0
    /\ \A c \in Chantiers : db.chantier[c].cout_reel >= 0

\* ------------------------------------------------ chantiers and permissions
\* django.contrib.auth users; every request below is made by an authenticated
\* user (IsAuthenticated passes): 1 is staff, 2 and 3 are not
Users == {1, 2, 3}

\* rest_framework.permissions.SAFE_METHODS
SAFE_METHODS == {"GET", "HEAD", "OPTIONS"}

\* what is kept of a request made by a named user
RespUser(op, method, status, user, cible) ==
    [op |-> op, method |-> method, status |-> {status}, user |-> user, cible |-> cible]

\* request.user.is_staff
is_staff(d, user) == d.user[user].is_staff

\* the mutant of IsChefOrReadOnly: any authenticated user may write
IsChefOrReadOnly_tous(d, user, method, obj) == TRUE

\* IsChefOrReadOnly.has_object_permission
IsChefOrReadOnly(d, user, method, obj) ==
    IF method \in SAFE_METHODS THEN TRUE
    ELSE {user} = obj.chef \/ is_staff(d, user)

\* ChantiersViewSet.queryset: Chantier.objects.filter(actif=True)
ChantiersViewSet_queryset(d) == {c \in DOMAIN d.chantier : d.chantier[c].actif}

\* get_object of ChantiersViewSet: the status that ends the request before its
\* handler body runs (404 outside the queryset, 403 when the object permission
\* refuses), or nothing
ChantiersViewSet_get_object(d, user, method, c) ==
    IF c \notin ChantiersViewSet_queryset(d) THEN {404}
    ELSE IF ~IsChefOrReadOnly(d, user, method, d.chantier[c]) THEN {403}
    ELSE {}

\* ChantiersSerializer.validate_numero: any row with the number, the updated
\* row included, makes the number a duplicate
validate_numero(d, value) == ~(\E c \in DOMAIN d.chantier : d.chantier[c].numero = value)

\* the mutant of ChantiersSerializer.validate: only an end before the start
\* is refused
ChantiersSerializer_validate_avant(data) ==
    IF data.date_debut = {} \/ data.date_fin_prevue = {} THEN 500
    ELSE IF \E a \in data.date_debut, b \in data.date_fin_prevue : a > b THEN 400
    ELSE IF data.budget_total = {} THEN 500
    ELSE IF \E x \in data.budget_total : x <= 0 THEN 400
    ELSE 200

\* ChantiersSerializer.validate: data['date_debut'], data['date_fin_prevue']
\* and data['budget_total'] are read whether or not the body has them; the
\* result is 200 (valid), 400 (ValidationError) or 500 (KeyError)
ChantiersSerializer_validate(data) ==
    IF data.date_debut = {} \/ data.date_fin_prevue = {} THEN 500
    ELSE IF \E a \in data.date_debut, b \in data.date_fin_prevue : a >= b THEN 400
    ELSE IF data.budget_total = {} THEN 500
    ELSE IF \E x \in data.budget_total : x <= 0 THEN 400
    ELSE 200

\* ChantiersSerializer.is_valid: the fields first (required unless partial,
\* validate_numero, chef an existing user, budget_total's MinValueValidator(0)),
\* then validate
ChantiersSerializer_is_valid(d, data, partial) ==
    LET manque == /\ ~partial
                  /\ \/ data.numero = {}
                     \/ data.date_debut = {}
                     \/ data.date_fin_prevue = {}
                     \/ data.budget_total = {}
        champs == /\ \A value \in data.numero : validate_numero(d, value)
                  /\ data.chef \subseteq DOMAIN d.user
                  /\ \A x \in data.budget_total : x >= 0
    IN  IF manque \/ ~champs THEN 400 ELSE ChantiersSerializer_validate(data)

\* ModelSerializer.update: the keys the body has replace the row's values
ChantiersSerializer_update(row, data) ==
    [numero |-> IF data.numero = {} THEN row.numero ELSE CHOOSE v \in data.numero : TRUE,
     chef   |-> IF data.chef = {} THEN row.chef ELSE data.chef,
     actif  |-> IF data.actif = {} THEN row.actif ELSE CHOOSE v \in data.actif : TRUE,
     date_debut      |-> IF data.date_debut = {} THEN row.date_debut
                         ELSE CHOOSE v \in data.date_debut : TRUE,
     date_fin_prevue |-> IF data.date_fin_prevue = {} THEN row.date_fin_prevue
                         ELSE CHOOSE v \in data.date_fin_prevue : TRUE,
     budget_total    |-> IF data.budget_total = {} THEN row.budget_total
                         ELSE CHOOSE v \in data.budget_total : TRUE]

\* bodies of PUT/PATCH /api/v1/chantiers/{id}/ : each key absent or present
ChantierBodies ==
    {[numero |-> n, chef |-> ch, actif |-> a, date_debut |-> dd[1],
      date_fin_prevue |-> dd[2], budget_total |-> b] :
        n \in {{}, {"CH-1"}, {"CH-3"}},
        ch \in {{}, {3}},
        a \in {{}, {FALSE}},
        dd \in {<<{}, {}>>, <<{1}, {2}>>, <<{2}, {2}>>},
        b \in {{}, {0}, {5}}}

\* chantier 1 is led by user 2, chantier 2 has no chef
InitChantiers ==
    /\ db_engine = "sqlite3"
    /\ db = [user |-> [u \in Users |-> [is_staff |-> (u = 1)]],
             chantier |-> [c \in Chantiers |->
                 [numero |-> IF c = 1 THEN "CH-1" ELSE "CH-2",
                  chef |-> IF c = 1 THEN {2} ELSE {},
                  actif |-> TRUE, date_debut |-> 1, date_fin_prevue |-> 2,
                  budget_total |-> 5]]]
    /\ seq = [tache |-> 1, heuretravail |-> 1]
    /\ response = NoResponse
    /\ procs = <<>>

\* ChantiersSerializer.Meta.fields, inherited by ChantiersDetailSerializer.Meta
ChantiersSerializer_Meta_fields ==
    {"id", "numero", "nom", "description", "adresse", "codepostal", "ville",
     "latitude", "longitude", "date_debut", "date_fin_prevue", "date_fin_reelle",
     "status", "chef", "chef_detail", "budget_total", "cout_reel", "progression",
     "jours_restants", "nombre_taches", "notes_internes", "date_creation", "actif"}

\* the fields ChantiersDetailSerializer declares itself
ChantiersDetailSerializer_declared == {"lots"}

\* ModelSerializer.get_field_names asserts that every field a serializer
\* declares itself is listed in Meta.fields; the status is 200, or 500 when
\* the assertion fails as the response is serialized
ChantiersDetailSerializer_data ==
    IF ChantiersDetailSerializer_declared \subseteq ChantiersSerializer_Meta_fields
    THEN 200 ELSE 500

\* GET /api/v1/chantiers/{id}/ : get_serializer_class gives
\* ChantiersDetailSerializer for the action retrieve
ChantiersViewSet_retrieve ==
    \E user \in Users, c \in Chantiers :
        LET refus == ChantiersViewSet_get_object(db, user, "GET", c)
        IN  /\ response' = RespUser("chantiers_retrieve", "GET",
                                    IF refus = {} THEN ChantiersDetailSerializer_data
                                    ELSE CHOOSE x \in refus : TRUE,
                                    user, c)
            /\ UNCHANGED <<db_engine, db, seq, procs>>

\* PUT (partial = FALSE) or PATCH (partial = TRUE) /api/v1/chantiers/{id}/
ChantiersViewSet_update ==
    \E user \in Users, c \in Chantiers, partial \in BOOLEAN, data \in ChantierBodies :
        LET method == IF partial THEN "PATCH" ELSE "PUT"
            refus  == ChantiersViewSet_get_object(db, user, method, c)
            valide == ChantiersSerializer_is_valid(db, data, partial)
        IN  IF refus # {}
            THEN /\ response' = RespUser("chantiers_update", method,
                                         CHOOSE x \in refus : TRUE, user, c)
                 /\ UNCHANGED <<db_engine, db, seq, procs>>
            ELSE IF valide # 200
            THEN /\ response' = RespUser("chantiers_update", method, valide, user, c)
                 /\ UNCHANGED <<db_engine, db, seq, procs>>
            ELSE /\ db' = [db EXCEPT !.chantier[c] = ChantiersSerializer_update(@, data)]
                 /\ response' = RespUser("chantiers_update", method, 200, user, c)
                 /\ UNCHANGED <<db_engine, seq, procs>>

\* DELETE /api/v1/chantiers/{id}/
ChantiersViewSet_destroy ==
    \E user \in Users, c \in Chantiers :
        LET refus == ChantiersViewSet_get_object(db, user, "DELETE", c)
        IN  IF refus # {}
            THEN /\ response' = RespUser("chantiers_destroy", "DELETE",
                                         CHOOSE x \in refus : TRUE, user, c)
                 /\ UNCHANGED <<db_engine, db, seq, procs>>
            ELSE /\ db' = [db EXCEPT !.chantier =
                              [k \in DOMAIN db.chantier \ {c} |-> db.chantier[k]]]
                 /\ response' = RespUser("chantiers_destroy", "DELETE", 204, user, c)
                 /\ UNCHANGED <<db_engine, seq, procs>>

NextChantiers ==
    \/ ChantiersViewSet_retrieve
    \/ ChantiersViewSet_update
    \/ ChantiersViewSet_destroy

SpecChantiers == InitChantiers /\ [][NextChantiers]_vars

\* the row the request of response' addressed, as it was before the request
ChantierVise == db.chantier[response'.cible]

\* the caller of response' is the chef of the addressed chantier or is staff
ChefOuStaff == {response'.user} = ChantierVise.chef \/ is_staff(db, response'.user)

\* C11 as stated: an update or delete of a chantier by a user who is neither
\* its chef nor staff is answered 403 and leaves the chantier unchanged.
C11_RefusToujours403 ==
    [][(/\ response'.op \in {"chantiers_update", "chantiers_destroy"}
        /\ response'.cible \in DOMAIN db.chantier
        /\ ~ChefOuStaff)
       => response'.status = {403} /\ db' = db]_vars

\* C11, amended: on a chantier the endpoint serves (actif = true), an update
\* or delete by a user who is neither its chef nor staff is answered 403, the
\* same request by the chef or by staff is not refused (no 403), a chantier
\* without chef is writable by staff only, and a read is refused to no
\* authenticated user (no 403); on an inactive chantier every request is
\* answered 404; a request answered 403 or 404 leaves the tables unchanged.
C11_ChefOuStaffSeulement ==
    [][(/\ response'.op \in {"chantiers_retrieve", "chantiers_update", "chantiers_destroy"}
        /\ response'.cible \in DOMAIN db.chantier)
       => /\ ~ChantierVise.actif => response'.status = {404}
          /\ (ChantierVise.actif /\ response'.op = "chantiers_retrieve")
                => response'.status # {403} /\ db' = db
          /\ (ChantierVise.actif /\ response'.op # "chantiers_retrieve")
                => /\ ~ChefOuStaff => response'.status = {403}
                   /\ ChefOuStaff => response'.status # {403}
                   /\ ChantierVise.chef = {}
                         => (response'.status # {403} <=> is_staff(db, response'.user))
          /\ response'.status \in {{403}, {404}} => db' = db]_vars

\* a user who is neither chef nor staff was refused an update on an active
\* chantier that has a chef
C11_Witness ==
    /\ response.op = "chantiers_update"
    /\ response.status = {403}
    /\ response.cible \in ChantiersViewSet_queryset(db)
    /\ db.chantier[response.cible].chef # {}
    /\ {response.user} # db.chantier[response.cible].chef
    /\ ~is_staff(db, response.user)

\* ---------------------------------------- requests under a chantier, by user
\* LotsViewSet, TachesViewSet and HeuresTravailViewSet have
\* permission_classes = [IsAuthenticated]: the handlers above run for whoever
\* holds a session.  The session's user is kept with the tables.
IsAuthenticated(d) == d.session \in DOMAIN d.user

\* the tables of InitDb(2) with the users, the chefs (user 2 leads chantier 1,
\* chantier 2 has no chef) and the session of the user who makes the requests
InitAcces ==
    /\ db_engine = "sqlite3"
    /\ \E user \in Users :
         db = [lot |-> InitDb(2).lot,
               tache |-> InitDb(2).tache,
               heuretravail |-> InitDb(2).heuretravail,
               chantier |-> [c \in Chantiers |->
                                [cout_reel |-> 0, chef |-> IF c = 1 THEN {2} ELSE {}]],
               user |-> [u \in Users |-> [is_staff |-> (u = 1)]],
               session |-> user]
    /\ seq = [tache |-> 3, heuretravail |-> 1]
    /\ response = NoResponse
    /\ procs = <<>>

NextAcces ==
    /\ IsAuthenticated(db)
    /\ \/ TachesViewSet_heures
       \/ HeuresTravailViewSet_destroy
       \/ TachesViewSet_destroy
       \/ LotsViewSet_destroy

SpecAcces == InitAcces /\ [][NextAcces]_vars

\* C12: a mutating request on a lot, a task or an hour entry made by a user who
\* is not staff and leads no chantier is denied and leaves the tables unchanged.
C12_EcritureReserveeAuChef ==
    [][(/\ ~is_staff(db, db.session)
        /\ \A c \in Chantiers : db.chantier[c].chef # {db.session}
        /\ response'.op \in {"taches_heures", "heures_destroy",
                             "taches_destroy", "lots_destroy"})
       => response'.status \notin Succes /\ db' = db]_vars

\* ------------------------------------------------- validation of hour entries
\* HeureTravail.validee (default False) and HeureTravail.validee_par (null)
\* are kept beside the rows: db.validee is the set of entries whose flag is
\* true, db.validee_par maps the entries that have a validator to that user.
\* Task 1 is under chantier 1 (chef: user 2), task 2 under chantier 2 (no chef).
InitValider ==
    /\ db_engine = "sqlite3"
    /\ db = [lot |-> InitDb(3).lot,
             tache |-> InitDb(3).tache,
             heuretravail |-> InitDb(3).heuretravail,
             chantier |-> [c \in Chantiers |->
                              [cout_reel |-> 0, chef |-> IF c = 1 THEN {2} ELSE {}]],
             user |-> [u \in Users |-> [is_staff |-> (u = 1)]],
             validee |-> {},
             validee_par |-> [h \in {} |-> 0]]
    /\ seq = [tache |-> 3, heuretravail |-> 1]
    /\ response = NoResponse
    /\ procs = <<>>

\* valider, lines 343-345: request.user is the chef of the entry's chantier
\* (heures.tache.lot.chantier.chef) or is staff
valider_autorise(d, user, h) ==
    {user} = d.chantier[tache_chantier(d, d.heuretravail[h].tache)].chef
        \/ is_staff(d, user)

\* POST /api/v1/heures/{id}/valider/ : 403 unless the caller is the chef or
\* staff; else the flag and the validator are set and the row is saved, which
\* runs the recomputation of HeureTravail.save
HeuresTravailViewSet_valider ==
    \E user \in Users, h \in DOMAIN db.heuretravail :
        IF ~valider_autorise(db, user, h)
        THEN /\ response' = RespUser("heures_valider", "POST", 403, user, h)
             /\ UNCHANGED <<db_engine, db, seq, procs>>
        ELSE LET d1 == [db EXCEPT !.validee = @ \cup {h},
                                  !.validee_par = [k \in DOMAIN @ \cup {h} |->
                                                      IF k = h THEN user ELSE @[k]]]
             IN  /\ db' = HeureTravail_save(d1, h, db.heuretravail[h], db_engine)
                 /\ response' = RespUser("heures_valider", "POST", 200, user, h)
                 /\ UNCHANGED <<db_engine, seq, procs>>

NextValider ==
    \/ HeuresTravailViewSet_create
    \/ HeuresTravailViewSet_update
    \/ HeuresTravailViewSet_valider

SpecValider == InitValider /\ [][NextValider]_vars

\* the entry the validation request of response' addressed
EntreeVisee == response'.cible

\* C13: the validation action answers 403 and leaves the entry's flag and
\* validator unchanged when the caller is neither the chef of the entry's
\* chantier nor staff; otherwise it sets validee = true and validee_par = the
\* caller, and changes neither the entry's hours nor its task's heures_reelles.
C13_Valider ==
    [][response'.op = "heures_valider"
       => LET t == db.heuretravail[EntreeVisee].tache
          IN  IF ~valider_autorise(db, response'.user, EntreeVisee)
              THEN /\ response'.status = {403}
                   /\ db'.validee = db.validee
                   /\ db'.validee_par = db.validee_par
              ELSE /\ EntreeVisee \in db'.validee
                   /\ EntreeVisee \in DOMAIN db'.validee_par
                   /\ db'.validee_par[EntreeVisee] = response'.user
                   /\ db'.heuretravail[EntreeVisee].heures = db.heuretravail[EntreeVisee].heures
                   /\ db'.tache[t].heures_reelles = db.tache[t].heures_reelles]_vars

\* ------------------------------------------------ object-level permissions
\* IsChefChantier and IsMembreEquipe, applied to a user and a target object.
\* An object is a record of the attributes the rules look at; hasattr(obj, a)
\* is a \in DOMAIN obj, a nullable foreign key is a set of at most one element
\* (teams 1 and 2).

\* the targets: a Chantier, a Lot (obj.chantier), a Tache (obj.lot.chantier,
\* obj.equipe), an HeureTravail (none of chantier, lot, equipe) and a Membre
\* (obj.equipe)
Cibles ==
    {[model |-> "Chantier", chef |-> ch] : ch \in {{}, {2}, {3}}}
    \cup {[model |-> "Lot", chantier |-> [chef |-> ch]] : ch \in {{}, {2}, {3}}}
    \cup {[model |-> "Tache", lot |-> [chantier |-> [chef |-> ch]], equipe |-> e] :
             ch \in {{}, {2}}, e \in {{}, {1}, {2}}}
    \cup {[model |-> "HeureTravail"]}
    \cup {[model |-> "Membre", equipe |-> e] : e \in {{}, {1}, {2}}}

\* IsChefChantier.has_object_permission
IsChefChantier(d, user, obj) ==
    IF obj.model = "Chantier"
    THEN {user} = obj.chef \/ is_staff(d, user)
    ELSE IF "chantier" \in DOMAIN obj
    THEN {user} = obj.chantier.chef \/ is_staff(d, user)
    ELSE IF "lot" \in DOMAIN obj /\ "chantier" \in DOMAIN obj.lot
    THEN {user} = obj.lot.chantier.chef \/ is_staff(d, user)
    ELSE FALSE

\* IsMembreEquipe.has_object_permission: d.membre maps the users that have a
\* Membre row (Membre.user is one-to-one) to that row
IsMembreEquipe(d, user, obj) ==
    IF user \in DOMAIN d.membre
    THEN IF "equipe" \in DOMAIN obj
         THEN obj.equipe = d.membre[user].equipe \/ is_staff(d, user)
         ELSE FALSE
    ELSE is_staff(d, user)

\* any assignment of Membre rows (team 1, team 2 or no team) to the users
InitPermissions ==
    /\ db_engine = "sqlite3"
    /\ \E S \in SUBSET Users : \E m \in [S -> [equipe : {{}, {1}, {2}}]] :
         db = [user |-> [u \in Users |-> [is_staff |-> (u = 1)]], membre |-> m]
    /\ seq = [tache |-> 1, heuretravail |-> 1]
    /\ response = NoResponse
    /\ procs = <<>>

\* check_object_permissions with IsChefChantier
check_object_permissions_IsChefChantier ==
    \E user \in Users, obj \in Cibles :
        /\ response' = [op |-> "IsChefChantier", user |-> user, obj |-> obj,
                        permis |-> IsChefChantier(db, user, obj)]
        /\ UNCHANGED <<db_engine, db, seq, procs>>

\* check_object_permissions with IsMembreEquipe
check_object_permissions_IsMembreEquipe ==
    \E user \in Users, obj \in Cibles :
        /\ response' = [op |-> "IsMembreEquipe", user |-> user, obj |-> obj,
                        permis |-> IsMembreEquipe(db, user, obj)]
        /\ UNCHANGED <<db_engine, db, seq, procs>>

NextPermissions ==
    \/ check_object_permissions_IsChefChantier
    \/ check_object_permissions_IsMembreEquipe

SpecPermissions == InitPermissions /\ [][NextPermissions]_vars

\* C14: IsChefChantier and IsMembreEquipe grant a staff user access to every
\* target, whatever attributes the target has and whether or not the user has
\* a Membre row.
C14_StaffToujoursAdmis ==
    (/\ response.op \in {"IsChefChantier", "IsMembreEquipe"}
     /\ is_staff(db, response.user))
    => response.permis

\* C15: IsMembreEquipe grants a user who is not staff only when the user has a
\* Membre row whose team is the target's team; it denies when the user has no
\* Membre row, when the target's team or the member's team is null, and when
\* the target has no team attribute.
C15_MembreDeLEquipe ==
    (/\ response.op = "IsMembreEquipe"
     /\ ~is_staff(db, response.user))
    => (response.permis
        <=> /\ response.user \in DOMAIN db.membre
            /\ "equipe" \in DOMAIN response.obj
            /\ response.obj.equipe # {}
            /\ db.membre[response.user].equipe # {}
            /\ response.obj.equipe = db.membre[response.user].equipe)

\* ---------------------------------------------------------------- anomalies
\* the names views.py binds at module level by its imports (lines 6-37)
views_imports ==
    {"viewsets", "status", "filters", "action", "Response", "IsAuthenticated",
     "MultiPartParser", "FormParser", "DjangoFilterBackend", "Sum", "Q", "Count", "F",
     "timezone", "get_object_or_404", "logging", "Decimal",
     "Chantier", "Lot", "Tache", "HeureTravail", "PhotoRapport", "Equipe", "Membre",
     "SousTraitant", "Anomalie",
     "ChantiersSerializer", "ChantiersDetailSerializer", "LotSerializer",
     "TacheSerializer", "HeuresTravailSerializer", "PhotoRapportSerializer",
     "EquipeSerializer", "MembreSerializer", "SousTraitantSerializer",
     "AnomalieSerializer", "RapportChantierSerializer",
     "IsChefOrReadOnly", "IsMembreEquipe", "IsChefChantier",
     "ChantiersFilter", "TacheFilter"}

\* evaluating a global name the module does not bind raises NameError
NameError(name) == name \notin views_imports

\* the days timezone.now().date() can return, and the dates of the rows
Dates == {1, 2, 3}

\* responsable_id of a request body: absent, or the id of user 2, of user 3,
\* or an id no user has
ResponsableIds == {{}, {2}, {3}, {9}}

\* two anomalies on task 1, reported by user 3, not closed
InitAnomalies ==
    /\ db_engine = "sqlite3"
    /\ \E st \in [{1, 2} -> {"OUVERTE", "REPORTEE"}], resp \in [{1, 2} -> {{}, {3}}] :
         db = [user |-> [u \in Users |-> [is_staff |-> (u = 1)]],
               anomalie |-> [a \in {1, 2} |->
                   [tache |-> 1, titre |-> "fissure", severite |-> "MAJEURE",
                    signalee_par |-> {3}, statut |-> st[a],
                    responsable_correction |-> resp[a],
                    date_resolution_reelle |-> {}]]]
    /\ seq = [tache |-> 1, heuretravail |-> 1]
    /\ response = NoResponse
    /\ procs = <<>>

\* POST /api/v1/anomalies/{id}/assigner/ : User.objects.get(id=responsable_id)
\* in a try whose except clause names User.DoesNotExist.  Where the name User
\* is not bound both raise NameError and the request ends in a 500.
AnomaliesViewSet_assigner ==
    \E a \in DOMAIN db.anomalie, responsable_id \in ResponsableIds :
        IF NameError("User")
        THEN /\ response' = [op |-> "anomalies_assigner", status |-> {500}, cible |-> a,
                             responsable_id |-> responsable_id]
             /\ UNCHANGED <<db_engine, db, seq, procs>>
        ELSE IF responsable_id # {} /\ responsable_id \subseteq DOMAIN db.user
        THEN /\ db' = [db EXCEPT !.anomalie[a].responsable_correction = responsable_id,
                                 !.anomalie[a].statut = "EN_COURS"]
             /\ response' = [op |-> "anomalies_assigner", status |-> {200}, cible |-> a,
                             responsable_id |-> responsable_id]
             /\ UNCHANGED <<db_engine, seq, procs>>
        ELSE /\ response' = [op |-> "anomalies_assigner", status |-> {404}, cible |-> a,
                             responsable_id |-> responsable_id]
             /\ UNCHANGED <<db_engine, db, seq, procs>>

\* POST /api/v1/anomalies/{id}/fermer/
AnomaliesViewSet_fermer ==
    \E a \in DOMAIN db.anomalie, today \in Dates :
        /\ db' = [db EXCEPT !.anomalie[a].statut = "FERMEE",
                            !.anomalie[a].date_resolution_reelle = {today}]
        /\ response' = [op |-> "anomalies_fermer", status |-> {200}, cible |-> a,
                        today |-> today]
        /\ UNCHANGED <<db_engine, seq, procs>>

NextAnomalies ==
    \/ AnomaliesViewSet_assigner
    \/ AnomaliesViewSet_fermer

SpecAnomalies == InitAnomalies /\ [][NextAnomalies]_vars

\* the anomaly the request of response' addressed, before and after it
AnomalieAvant == db.anomalie[response'.cible]
AnomalieApres == db'.anomalie[response'.cible]

\* C16: assigning an anomaly to an existing user sets its corrector to that
\* user and its status to EN_COURS and answers 200; closing sets the status to
\* FERMEE and the actual resolution date to today; neither changes another
\* anomaly nor the anomaly's task, reporter, severity or title.
C16_AssignerFermer ==
    [][response'.op \in {"anomalies_assigner", "anomalies_fermer"}
       => /\ (/\ response'.op = "anomalies_assigner"
              /\ response'.responsable_id # {}
              /\ response'.responsable_id \subseteq DOMAIN db.user)
             => /\ response'.status = {200}
                /\ AnomalieApres.responsable_correction = response'.responsable_id
                /\ AnomalieApres.statut = "EN_COURS"
          /\ response'.op = "anomalies_fermer"
             => /\ AnomalieApres.statut = "FERMEE"
                /\ AnomalieApres.date_resolution_reelle = {response'.today}
          /\ \A a \in DOMAIN db.anomalie \ {response'.cible} :
                db'.anomalie[a] = db.anomalie[a]
          /\ AnomalieApres.tache = AnomalieAvant.tache
          /\ AnomalieApres.signalee_par = AnomalieAvant.signalee_par
          /\ AnomalieApres.severite = AnomalieAvant.severite
          /\ AnomalieApres.titre = AnomalieAvant.titre]_vars

\* C17: assigning with a responsable_id that matches no user, or with none, is
\* answered 404 and leaves the anomaly's corrector and status unchanged.
C17_ResponsableInconnu404 ==
    [][(/\ response'.op = "anomalies_assigner"
        /\ (response'.responsable_id = {}
            \/ ~(response'.responsable_id \subseteq DOMAIN db.user)))
       => /\ response'.status = {404}
          /\ AnomalieApres.responsable_correction = AnomalieAvant.responsable_correction
          /\ AnomalieApres.statut = AnomalieAvant.statut]_vars

\* --------------------------------------------------------------- progression
\* StatusTache
StatusTache == {"A_FAIRE", "EN_COURS", "EN_ATTENTE", "TERMINEE", "REVISEE"}

\* the value of (a / b) * 100, kept as the fraction 100 a / b
Pourcentage(a, b) == [num |-> a * 100, den |-> b]

\* the integer 0 the methods return when there is nothing to count
Zero == [num |-> 0, den |-> 1]

\* chantier.lots.all()
chantier_lots(d, c) == {l \in d.lot : LotChantier(l) = c}

\* the mutant of taches_terminees: revised tasks count as done too
taches_terminees_ou_revisees(d, l) ==
    {t \in lot_taches(d, l) : d.tache[t].status \in {"TERMINEE", "REVISEE"}}

\* lot.taches.filter(status=StatusTache.TERMINEE)
taches_terminees(d, l) ==
    {t \in lot_taches(d, l) : d.tache[t].status = "TERMINEE"}

\* Chantier.get_progression_percentage
Chantier_get_progression_percentage(d, c) ==
    LET lots == chantier_lots(d, c)
        total_taches == SumOver(lots, [l \in d.lot |-> Cardinality(lot_taches(d, l))])
        terminees == SumOver(lots, [l \in d.lot |-> Cardinality(taches_terminees(d, l))])
    IN  IF lots = {} THEN Zero
        ELSE IF total_taches = 0 THEN Zero
        ELSE Pourcentage(terminees, total_taches)

\* Lot.get_progression_percentage
Lot_get_progression_percentage(d, l) ==
    IF lot_taches(d, l) = {} THEN Zero
    ELSE Pourcentage(Cardinality(taches_terminees(d, l)), Cardinality(lot_taches(d, l)))

\* three tasks to do: task 1 in lot 1, task 2 in lot 1 or 2 (chantier 1),
\* task 3 in lot 3 (chantier 2)
InitProgression ==
    /\ db_engine = "sqlite3"
    /\ \E l2 \in {1, 2} :
         db = [lot |-> LotIds,
               tache |-> [t \in {1, 2, 3} |->
                            [lot |-> IF t = 1 THEN 1 ELSE IF t = 2 THEN l2 ELSE 3,
                             status |-> "A_FAIRE"]],
               heuretravail |-> [h \in {} |-> {}]]
    /\ seq = [tache |-> 4, heuretravail |-> 1]
    /\ response = NoResponse
    /\ procs = <<>>

\* PATCH /api/v1/taches/{id}/ {status: ...} : any status is accepted
TachesViewSet_partial_update ==
    \E t \in DOMAIN db.tache, status \in StatusTache :
        /\ db' = [db EXCEPT !.tache[t].status = status]
        /\ response' = Resp("taches_partial_update", 200, {t}, {}, {}, {})
        /\ UNCHANGED <<db_engine, seq, procs>>

\* chantier.get_progression_percentage() is evaluated
Chantier_progression ==
    \E c \in Chantiers :
        /\ response' = [op |-> "chantier_progression", cible |-> c,
                        valeur |-> Chantier_get_progression_percentage(db, c)]
        /\ UNCHANGED <<db_engine, db, seq, procs>>

\* lot.get_progression_percentage() is evaluated
Lot_progression ==
    \E l \in db.lot :
        /\ response' = [op |-> "lot_progression", cible |-> l,
                        valeur |-> Lot_get_progression_percentage(db, l)]
        /\ UNCHANGED <<db_engine, db, seq, procs>>

NextProgression ==
    \/ TachesViewSet_partial_update
    \/ TachesViewSet_destroy
    \/ LotsViewSet_destroy
    \/ Chantier_progression
    \/ Lot_progression

SpecProgression == InitProgression /\ [][NextProgression]_vars

\* the tasks of T whose status is done
Faites(d, T) == {t \in T : d.tache[t].status = "TERMINEE"}

\* the value v is the ratio of done tasks among T times 100, and 0 for no task
EstLeRatio(v, d, T) ==
    /\ T = {} => v.num = 0
    /\ T # {} => v.num * Cardinality(T) = 100 * Cardinality(Faites(d, T)) * v.den
    /\ (T # {} /\ Faites(d, T) = T) => v.num = 100 * v.den
    /\ (Cardinality(T) = 2 /\ Cardinality(Faites(d, T)) = 1) => v.num = 50 * v.den

\* a step that only moves tasks to done: same lots, same tasks in the same
\* lots, every done task still done
VersTerminee ==
    /\ db' # db
    /\ db'.lot = db.lot
    /\ DOMAIN db'.tache = DOMAIN db.tache
    /\ \A t \in DOMAIN db.tache :
         /\ db'.tache[t].lot = db.tache[t].lot
         /\ db'.tache[t].status # db.tache[t].status => db'.tache[t].status = "TERMINEE"

\* C18: a chantier's progression is done tasks / tasks * 100 over all its
\* lots, 0 without lots or tasks and 100 when every task is done; a lot's
\* progression is the same ratio over its own tasks (one done task of two gives
\* 50); and a task moving to done, the tasks being the same, lowers no
\* chantier's progression.
C18_Progression ==
    /\ [](/\ response.op = "chantier_progression"
             => EstLeRatio(response.valeur, db, chantier_taches(db, response.cible))
          /\ response.op = "lot_progression"
             => EstLeRatio(response.valeur, db, lot_taches(db, response.cible)))
    /\ [][VersTerminee =>
            \A c \in Chantiers :
               Chantier_get_progression_percentage(db', c).num
                     * Chantier_get_progression_percentage(db, c).den
                  >= Chantier_get_progression_percentage(db, c).num
                     * Chantier_get_progression_percentage(db', c).den]_vars

\* the progression of a lot with one done task and one other task was computed
C18_Witness ==
    /\ response.op = "lot_progression"
    /\ Cardinality(lot_taches(db, response.cible)) = 2
    /\ Cardinality(Faites(db, lot_taches(db, response.cible))) = 1
    /\ response.valeur.num = 50 * response.valeur.den

\* ------------------------------------------------------------------ lateness
\* StatusChantier
StatusChantier == {"EN_ATTENTE", "EN_COURS", "EN_PAUSE", "TERMINE", "FACTURE", "ANNULE"}

\* REST_FRAMEWORK['PAGE_SIZE']
PAGE_SIZE == 20

\* the mutant of Tache.est_en_retard: late from the planned day itself
est_en_retard_des_le_jour(tache, today) ==
    IF tache.status = "TERMINEE"
    THEN \E r \in tache.date_fin_reelle : r >= tache.date_fin_prevue
    ELSE today >= tache.date_fin_prevue

\* Tache.est_en_retard, today being timezone.now().date()
est_en_retard(tache, today) ==
    IF tache.status = "TERMINEE"
    THEN \E r \in tache.date_fin_reelle : r > tache.date_fin_prevue
    ELSE today > tache.date_fin_prevue

\* the mutant of ChantiersFilter.filter_en_retard: date_fin_prevue__lte
ChantiersFilter_filter_en_retard_lte(d, queryset, value, today) ==
    IF value
    THEN {c \in queryset : /\ d.chantier[c].date_fin_prevue <= today
                           /\ d.chantier[c].status \in {"EN_COURS", "EN_ATTENTE"}}
    ELSE queryset

\* ChantiersFilter.filter_en_retard
ChantiersFilter_filter_en_retard(d, queryset, value, today) ==
    IF value
    THEN {c \in queryset : /\ d.chantier[c].date_fin_prevue < today
                           /\ d.chantier[c].status \in {"EN_COURS", "EN_ATTENTE"}}
    ELSE queryset

\* TacheFilter.filter_en_retard
TacheFilter_filter_en_retard(d, queryset, value, today) ==
    IF value
    THEN {t \in queryset : /\ d.tache[t].date_fin_prevue < today
                           /\ d.tache[t].status \in {"A_FAIRE", "EN_COURS", "EN_ATTENTE"}}
    ELSE queryset

\* TachesViewSet.get_queryset
TachesViewSet_get_queryset(d) == DOMAIN d.tache

\* chantier 1 ends on day 2 with any status, active or not; chantier 2 is
\* pending and active and ends on day 1 or 3; task 1 ends on day 2 with any
\* status and actual end, task 2 ends on day 3 with any status
InitRetard ==
    /\ db_engine = "sqlite3"
    /\ \E s1 \in StatusChantier, a1 \in BOOLEAN, d2 \in {1, 3},
          st1 \in StatusTache, r1 \in {{}} \cup {{j} : j \in Dates},
          st2 \in StatusTache :
         db = [chantier |-> [c \in Chantiers |->
                              IF c = 1
                              THEN [status |-> s1, date_fin_prevue |-> 2, actif |-> a1]
                              ELSE [status |-> "EN_ATTENTE", date_fin_prevue |-> d2,
                                    actif |-> TRUE]],
               lot |-> LotIds,
               tache |-> [t \in {1, 2} |->
                            IF t = 1
                            THEN [lot |-> 1, status |-> st1, date_fin_prevue |-> 2,
                                  date_fin_reelle |-> r1]
                            ELSE [lot |-> 3, status |-> st2, date_fin_prevue |-> 3,
                                  date_fin_reelle |-> {}]]]
    /\ seq = [tache |-> 3, heuretravail |-> 1]
    /\ response = NoResponse
    /\ procs = <<>>

\* GET /api/v1/taches/{id}/ : TacheSerializer.get_en_retard
TachesViewSet_retrieve ==
    \E t \in TachesViewSet_get_queryset(db), today \in Dates :
        /\ response' = [op |-> "taches_retrieve", status |-> 200, cible |-> t,
                        today |-> today,
                        en_retard |-> est_en_retard(db.tache[t], today)]
        /\ UNCHANGED <<db_engine, db, seq, procs>>

\* GET /api/v1/chantiers/?en_retard=... : one page of the filtered queryset
ChantiersViewSet_list ==
    \E value \in BOOLEAN, today \in Dates :
        LET results == ChantiersFilter_filter_en_retard(
                           db, ChantiersViewSet_queryset(db), value, today)
        IN  /\ Cardinality(results) <= PAGE_SIZE
            /\ response' = [op |-> "chantiers_list", status |-> 200,
                            en_retard |-> value, today |-> today,
                            results |-> results]
            /\ UNCHANGED <<db_engine, db, seq, procs>>

\* GET /api/v1/taches/?en_retard=... : one page of the filtered queryset
TachesViewSet_list ==
    \E value \in BOOLEAN, today \in Dates :
        LET results == TacheFilter_filter_en_retard(
                           db, TachesViewSet_get_queryset(db), value, today)
        IN  /\ Cardinality(results) <= PAGE_SIZE
            /\ response' = [op |-> "taches_list", status |-> 200,
                            en_retard |-> value, today |-> today,
                            results |-> results]
            /\ UNCHANGED <<db_engine, db, seq, procs>>

NextRetard ==
    \/ TachesViewSet_retrieve
    \/ ChantiersViewSet_list
    \/ TachesViewSet_list

SpecRetard == InitRetard /\ [][NextRetard]_vars

\* the task whose lateness flag the response carries
TacheLue == db.tache[response.cible]

\* C19: the lateness flag of a task is true exactly when (its status is not
\* done and today is after its planned end) or (its status is done, its actual
\* end is set and after its planned end); a done task with no actual end is
\* never late.
C19_EnRetard ==
    response.op = "taches_retrieve" =>
      /\ response.en_retard
           <=> \/ /\ TacheLue.status # "TERMINEE"
                  /\ response.today > TacheLue.date_fin_prevue
               \/ /\ TacheLue.status = "TERMINEE"
                  /\ TacheLue.date_fin_reelle # {}
                  /\ \A r \in TacheLue.date_fin_reelle : r > TacheLue.date_fin_prevue
      /\ (TacheLue.status = "TERMINEE" /\ TacheLue.date_fin_reelle = {})
           => ~response.en_retard

\* a done task finished after its planned end was read, on a day that is not
\* after the planned end, and is flagged late
C19_Witness ==
    /\ response.op = "taches_retrieve"
    /\ TacheLue.status = "TERMINEE"
    /\ \E r \in TacheLue.date_fin_reelle : r > TacheLue.date_fin_prevue
    /\ response.today <= TacheLue.date_fin_prevue
    /\ response.en_retard

\* the chantiers planned to end before today that are in progress or pending
ChantiersEnRetard(today) ==
    {c \in DOMAIN db.chantier : /\ db.chantier[c].date_fin_prevue < today
                                /\ db.chantier[c].status \in {"EN_COURS", "EN_ATTENTE"}}

\* the tasks planned to end before today that are to do, in progress or blocked
TachesEnRetard(today) ==
    {t \in DOMAIN db.tache : /\ db.tache[t].date_fin_prevue < today
                             /\ db.tache[t].status \in {"A_FAIRE", "EN_COURS", "EN_ATTENTE"}}

\* the task listing with en_retard=true returns exactly the late tasks
ListeTachesExacte ==
    (response.op = "taches_list" /\ response.en_retard)
       => response.results = TachesEnRetard(response.today)

\* C20 as stated: with en_retard=true the chantier listing returns exactly the
\* chantiers planned to end before today with status in progress or pending,
\* and the task listing exactly the tasks planned to end before today with
\* status to do, in progress or blocked.
C20_ListeTousLesRetards ==
    /\ (response.op = "chantiers_list" /\ response.en_retard)
          => response.results = ChantiersEnRetard(response.today)
    /\ ListeTachesExacte

\* C20 amended: the chantier listing returns exactly those of these chantiers
\* that are active (actif = true); the task listing is as stated; a chantier or
\* task planned to end today is not returned.
C20_ListeRetardsActifs ==
    /\ (response.op = "chantiers_list" /\ response.en_retard)
          => /\ response.results =
                  {c \in ChantiersEnRetard(response.today) : db.chantier[c].actif}
             /\ \A c \in response.results :
                  db.chantier[c].date_fin_prevue # response.today
    /\ ListeTachesExacte
    /\ (response.op = "taches_list" /\ response.en_retard)
          => \A t \in response.results : db.tache[t].date_fin_prevue # response.today

\* a chantier listing with en_retard=true returned a late chantier and left
\* out a pending chantier whose planned end is today
C20_Witness ==
    /\ response.op = "chantiers_list"
    /\ response.en_retard
    /\ response.results # {}
    /\ \E c \in DOMAIN db.chantier :
         /\ db.chantier[c].date_fin_prevue = response.today
         /\ db.chantier[c].status = "EN_ATTENTE"
         /\ db.chantier[c].actif
         /\ c \notin response.results

\* ------------------------------------------------------------- status report
\* the choices of Anomalie.statut
StatutAnomalie == {"OUVERTE", "EN_COURS", "FERMEE", "REPORTEE"}

\* round(x, 1) of the fraction p, in tenths: Python rounds half to even
round_1(p) == RoundDiv(p.num * 10, p.den, "sqlite3")

\* Anomalie.objects.filter(tache__lot__chantier=chantier, statut__in=[...])
rapport_anomalies_ouvertes(d, c) ==
    {a \in DOMAIN d.anomalie : /\ d.anomalie[a].tache \in chantier_taches(d, c)
                               /\ d.anomalie[a].statut \in {"OUVERTE", "EN_COURS"}}

\* Membre.objects.filter(equipe__taches__lot__chantier=chantier, actif=True).distinct()
rapport_membres_actifs(d, c) ==
    {m \in DOMAIN d.membre :
        /\ d.membre[m].actif
        /\ \E t \in chantier_taches(d, c), e \in d.membre[m].equipe :
              e \in d.tache[t].equipe}

\* the sum over the lots of aggregate(Sum('heures_reelles')) or 0
rapport_heures_reelles(d, c) ==
    SumOver(chantier_lots(d, c),
            [l \in d.lot |-> SumOver(lot_taches(d, l),
                                     [t \in DOMAIN d.tache |-> d.tache[t].heures_reelles])])

\* task 1 in lot 1, task 2 in lot 1 or 3, each to do or done, with or without
\* team 1, with 0.0 or 1.5 real hours; anomaly 1 on task 1 in any status,
\* anomaly 2 on task 2, open; member 1 of team 1, active or not, member 2
\* active, in team 1 or in none; chantier 1 cost 150.00, chantier 2 active or not
InitRapport ==
    /\ db_engine = "sqlite3"
    /\ \E l2 \in {1, 3}, s1 \in {"A_FAIRE", "TERMINEE"}, s2 \in {"A_FAIRE", "TERMINEE"},
          e1 \in {{}, {1}}, h1 \in {0, 15}, st \in StatutAnomalie,
          a1 \in BOOLEAN, e2 \in {{}, {1}}, actif2 \in BOOLEAN :
         db = [chantier |-> [c \in Chantiers |->
                              [cout_reel |-> IF c = 1 THEN 15000 ELSE 0,
                               actif |-> IF c = 1 THEN TRUE ELSE actif2]],
               lot |-> LotIds,
               tache |-> [t \in {1, 2} |->
                            IF t = 1
                            THEN [lot |-> 1, status |-> s1, heures_reelles |-> h1,
                                  equipe |-> e1]
                            ELSE [lot |-> l2, status |-> s2, heures_reelles |-> 15,
                                  equipe |-> {}]],
               anomalie |-> [a \in {1, 2} |->
                               IF a = 1 THEN [tache |-> 1, statut |-> st]
                               ELSE [tache |-> 2, statut |-> "OUVERTE"]],
               membre |-> [m \in {1, 2} |->
                             IF m = 1 THEN [equipe |-> {1}, actif |-> a1]
                             ELSE [equipe |-> e2, actif |-> TRUE]]]
    /\ seq = [tache |-> 3, heuretravail |-> 1]
    /\ response = NoResponse
    /\ procs = <<>>

\* GET /api/v1/chantiers/{id}/rapport/
ChantiersViewSet_rapport ==
    \E c \in Chantiers :
        IF c \notin ChantiersViewSet_queryset(db)
        THEN /\ response' = [op |-> "rapport", status |-> 404, cible |-> c]
             /\ UNCHANGED <<db_engine, db, seq, procs>>
        ELSE LET lots == chantier_lots(db, c)
                 taches_totales ==
                     SumOver(lots, [l \in db.lot |-> Cardinality(lot_taches(db, l))])
                 terminees ==
                     SumOver(lots, [l \in db.lot |-> Cardinality(taches_terminees(db, l))])
                 progression == IF taches_totales # 0
                                THEN Pourcentage(terminees, taches_totales)
                                ELSE Zero
             IN  /\ response' =
                       [op |-> "rapport", status |-> 200, cible |-> c,
                        taches_totales |-> taches_totales,
                        taches_terminees |-> terminees,
                        progression_percentage |-> round_1(progression),
                        heures_reelles |-> rapport_heures_reelles(db, c),
                        cout_reel |-> db.chantier[c].cout_reel,
                        anomalies_ouvertes |->
                            Cardinality(rapport_anomalies_ouvertes(db, c)),
                        membres_actifs |-> Cardinality(rapport_membres_actifs(db, c))]
                 /\ UNCHANGED <<db_engine, db, seq, procs>>

\* PATCH /api/v1/anomalies/{id}/ {statut: ...}
AnomaliesViewSet_partial_update ==
    \E a \in DOMAIN db.anomalie, statut \in StatutAnomalie :
        /\ db' = [db EXCEPT !.anomalie[a].statut = statut]
        /\ response' = [op |-> "anomalies_partial_update", status |-> 200, cible |-> a]
        /\ UNCHANGED <<db_engine, seq, procs>>

NextRapport ==
    \/ ChantiersViewSet_rapport
    \/ AnomaliesViewSet_partial_update

SpecRapport == InitRapport /\ [][NextRapport]_vars

\* the tasks of the chantier the report is about
TachesDuRapport == chantier_taches(db, response.cible)

\* C21: the status report gives total tasks = tasks across the chantier's
\* lots, completed tasks = those with status done, progress = completed /
\* total * 100 to the nearest tenth (0 for no task), real hours = the sum of
\* the tasks' real hours, real cost = the stored cost, open anomalies = the
\* anomalies under the chantier's tasks whose status is open, active members =
\* the distinct active members of teams assigned to the chantier's tasks.
C21_Rapport ==
    (response.op = "rapport" /\ response.status = 200) =>
      /\ response.taches_totales = Cardinality(TachesDuRapport)
      /\ response.taches_terminees = Cardinality(Faites(db, TachesDuRapport))
      /\ response.taches_terminees <= response.taches_totales
      /\ TachesDuRapport = {} => response.progression_percentage = 0
      /\ 2 * Abs(response.progression_percentage * response.taches_totales
                   - 1000 * response.taches_terminees) <= response.taches_totales
      /\ response.heures_reelles =
            SumOver(TachesDuRapport, [t \in DOMAIN db.tache |-> db.tache[t].heures_reelles])
      /\ response.cout_reel = db.chantier[response.cible].cout_reel
      /\ response.anomalies_ouvertes =
            Cardinality({a \in DOMAIN db.anomalie :
                            /\ db.anomalie[a].tache \in TachesDuRapport
                            /\ db.anomalie[a].statut = "OUVERTE"})
      /\ response.membres_actifs =
            Cardinality({m \in DOMAIN db.membre :
                            /\ db.membre[m].actif
                            /\ \E t \in TachesDuRapport :
                                 /\ db.membre[m].equipe # {}
                                 /\ db.membre[m].equipe = db.tache[t].equipe})

\* ------------------------------------------------------------ ownership tree
\* Model.delete with the foreign keys' on_delete rules.  The tables here are
\* chantier, lot, tache (lot, equipe, sous_traitants, bloquee_par,
\* heures_reelles), heuretravail (tache, membre), photo (tache), anomalie
\* (tache, photo), equipe (chef), membre (equipe) and soustraitant.

\* a function without the keys in K
Sans(f, K) == [k \in DOMAIN f \ K |-> f[k]]

\* the mutant of Tache_delete: only the hour entries follow the tasks
Tache_delete_heures_seules(d, T) == CascadeTaches(d, T)

\* Tache.delete for the tasks in T: hour entries, photos and anomalies go with
\* them (CASCADE), an anomaly that stays loses a deleted photo (SET_NULL), the
\* bloquee_par rows naming a deleted task are removed
Tache_delete(d, T) ==
    LET d1 == CascadeTaches(d, T)
        photos == {p \in DOMAIN d.photo : d.photo[p].tache \in T}
        anomalies == {a \in DOMAIN d.anomalie : d.anomalie[a].tache \in T}
    IN  [d1 EXCEPT
            !.tache = [t \in DOMAIN d1.tache |->
                          [d1.tache[t] EXCEPT !.bloquee_par = @ \ T]],
            !.photo = Sans(d.photo, photos),
            !.anomalie = [a \in DOMAIN d.anomalie \ anomalies |->
                             [d.anomalie[a] EXCEPT !.photo = @ \ photos]]]

\* Lot.delete: Tache.lot is CASCADE
Lot_delete(d, L) ==
    [Tache_delete(d, {t \in DOMAIN d.tache : d.tache[t].lot \in L})
        EXCEPT !.lot = @ \ L]

\* Chantier.delete: Lot.chantier is CASCADE
Chantier_delete(d, c) ==
    [Lot_delete(d, chantier_lots(d, c)) EXCEPT !.chantier = Sans(@, {c})]

\* Membre.delete: HeureTravail.membre and Equipe.chef are SET_NULL
Membre_delete(d, m) ==
    [d EXCEPT !.membre = Sans(@, {m}),
              !.heuretravail = [h \in DOMAIN @ |-> [@[h] EXCEPT !.membre = @ \ {m}]],
              !.equipe = [e \in DOMAIN @ |-> [@[e] EXCEPT !.chef = @ \ {m}]]]

\* Equipe.delete: Tache.equipe and Membre.equipe are SET_NULL
Equipe_delete(d, e) ==
    [d EXCEPT !.equipe = Sans(@, {e}),
              !.tache = [t \in DOMAIN @ |-> [@[t] EXCEPT !.equipe = @ \ {e}]],
              !.membre = [m \in DOMAIN @ |-> [@[m] EXCEPT !.equipe = @ \ {e}]]]

\* SousTraitant.delete: the rows of Tache.sous_traitants naming it are removed
SousTraitant_delete(d, s) ==
    [d EXCEPT !.soustraitant = @ \ {s},
              !.tache = [t \in DOMAIN @ |-> [@[t] EXCEPT !.sous_traitants = @ \ {s}]]]

\* tasks 1 and 2 under chantier 1 (task 2 in lot 1 or 2), task 3 under
\* chantier 2; entries, photos and anomalies under them; two teams, two
\* members, one subcontractor, all referenced
InitArbre ==
    /\ db_engine = "sqlite3"
    /\ \E l2 \in {1, 2}, ph \in {{}, {1}, {2}} :
         db = [chantier |-> [c \in Chantiers |-> [actif |-> TRUE, cout_reel |-> 0]],
               lot |-> LotIds,
               tache |-> [t \in {1, 2, 3} |->
                   [lot |-> IF t = 1 THEN 1 ELSE IF t = 2 THEN l2 ELSE 3,
                    equipe |-> IF t = 3 THEN {2} ELSE {1},
                    sous_traitants |-> IF t = 2 THEN {} ELSE {1},
                    bloquee_par |-> IF t = 1 THEN {2, 3} ELSE {},
                    taux_horaire |-> 10000,
                    heures_reelles |-> IF t = 2 THEN 0 ELSE 15]],
               heuretravail |-> [h \in {1, 2} |->
                   [tache |-> IF h = 1 THEN 1 ELSE 3, membre |-> {h}, heures |-> 150]],
               photo |-> [p \in {1, 2} |-> [tache |-> IF p = 1 THEN 2 ELSE 3]],
               anomalie |-> [a \in {1, 2} |->
                   [tache |-> IF a = 1 THEN 1 ELSE 3,
                    photo |-> IF a = 1 THEN ph ELSE {}]],
               equipe |-> [e \in {1, 2} |-> [chef |-> {e}, actif |-> TRUE]],
               membre |-> [m \in {1, 2} |-> [equipe |-> {m}, actif |-> TRUE]],
               soustraitant |-> {1}]
    /\ seq = [tache |-> 4, heuretravail |-> 3]
    /\ response = NoResponse
    /\ procs = <<>>

\* what is kept of a DELETE request: the endpoint and the row deleted
RespDelete(op, cible) == [op |-> op, status |-> 204, cible |-> cible]

\* DELETE /api/v1/chantiers/{id}/ by a staff user
ChantiersViewSet_perform_destroy ==
    \E c \in ChantiersViewSet_queryset(db) :
        /\ db' = Chantier_delete(db, c)
        /\ response' = RespDelete("chantiers_destroy", c)
        /\ UNCHANGED <<db_engine, seq, procs>>

\* DELETE /api/v1/lots/{id}/
LotsViewSet_perform_destroy ==
    \E l \in db.lot :
        /\ db' = Lot_delete(db, {l})
        /\ response' = RespDelete("lots_destroy", l)
        /\ UNCHANGED <<db_engine, seq, procs>>

\* DELETE /api/v1/taches/{id}/
TachesViewSet_perform_destroy ==
    \E t \in DOMAIN db.tache :
        /\ db' = Tache_delete(db, {t})
        /\ response' = RespDelete("taches_destroy", t)
        /\ UNCHANGED <<db_engine, seq, procs>>

\* DELETE /api/v1/membres/{id}/ : the queryset is Membre.objects.filter(actif=True)
MembresViewSet_perform_destroy ==
    \E m \in {k \in DOMAIN db.membre : db.membre[k].actif} :
        /\ db' = Membre_delete(db, m)
        /\ response' = RespDelete("membres_destroy", m)
        /\ UNCHANGED <<db_engine, seq, procs>>

\* DELETE /api/v1/equipes/{id}/ : the queryset is Equipe.objects.filter(actif=True)
EquipesViewSet_perform_destroy ==
    \E e \in {k \in DOMAIN db.equipe : db.equipe[k].actif} :
        /\ db' = Equipe_delete(db, e)
        /\ response' = RespDelete("equipes_destroy", e)
        /\ UNCHANGED <<db_engine, seq, procs>>

\* DELETE /api/v1/sous-traitants/{id}/
SousTraitantsViewSet_perform_destroy ==
    \E s \in db.soustraitant :
        /\ db' = SousTraitant_delete(db, s)
        /\ response' = RespDelete("soustraitants_destroy", s)
        /\ UNCHANGED <<db_engine, seq, procs>>

NextArbre ==
    \/ ChantiersViewSet_perform_destroy
    \/ LotsViewSet_perform_destroy
    \/ TachesViewSet_perform_destroy
    \/ MembresViewSet_perform_destroy
    \/ EquipesViewSet_perform_destroy
    \/ SousTraitantsViewSet_perform_destroy

SpecArbre == InitArbre /\ [][NextArbre]_vars

\* every reference of a row names a row that exists
SansOrphelin(d) ==
    /\ \A l \in d.lot : LotChantier(l) \in DOMAIN d.chantier
    /\ \A t \in DOMAIN d.tache :
         /\ d.tache[t].lot \in d.lot
         /\ d.tache[t].equipe \subseteq DOMAIN d.equipe
         /\ d.tache[t].sous_traitants \subseteq d.soustraitant
         /\ d.tache[t].bloquee_par \subseteq DOMAIN d.tache
    /\ \A h \in DOMAIN d.heuretravail :
         /\ d.heuretravail[h].tache \in DOMAIN d.tache
         /\ d.heuretravail[h].membre \subseteq DOMAIN d.membre
    /\ \A p \in DOMAIN d.photo : d.photo[p].tache \in DOMAIN d.tache
    /\ \A a \in DOMAIN d.anomalie :
         /\ d.anomalie[a].tache \in DOMAIN d.tache
         /\ d.anomalie[a].photo \subseteq DOMAIN d.photo
    /\ \A e \in DOMAIN d.equipe : d.equipe[e].chef \subseteq DOMAIN d.membre
    /\ \A m \in DOMAIN d.membre : d.membre[m].equipe \subseteq DOMAIN d.equipe

\* the tasks that the delete of response' takes with it
TachesSupprimees ==
    IF response'.op = "chantiers_destroy" THEN chantier_taches(db, response'.cible)
    ELSE IF response'.op = "lots_destroy" THEN lot_taches(db, response'.cible)
    ELSE IF response'.op = "taches_destroy" THEN {response'.cible}
    ELSE {}

\* C22: after every delete no lot, task, hour entry, photo or anomaly
\* references a deleted row; deleting a chantier, a lot or a task removes
\* exactly the tasks under it with their hour entries, photos and anomalies,
\* and no team, member or subcontractor; deleting a member or a team removes
\* no hour entry and no task and leaves every task's real hours as they were.
C22_ArbreDePropriete ==
    [][/\ SansOrphelin(db')
       /\ response'.op \in {"chantiers_destroy", "lots_destroy", "taches_destroy"}
            => /\ DOMAIN db'.tache = DOMAIN db.tache \ TachesSupprimees
               /\ DOMAIN db'.heuretravail =
                    {h \in DOMAIN db.heuretravail :
                        db.heuretravail[h].tache \notin TachesSupprimees}
               /\ DOMAIN db'.photo =
                    {p \in DOMAIN db.photo : db.photo[p].tache \notin TachesSupprimees}
               /\ DOMAIN db'.anomalie =
                    {a \in DOMAIN db.anomalie :
                        db.anomalie[a].tache \notin TachesSupprimees}
               /\ db'.equipe = db.equipe
               /\ db'.membre = db.membre
               /\ db'.soustraitant = db.soustraitant
       /\ response'.op \in {"membres_destroy", "equipes_destroy"}
            => /\ DOMAIN db'.heuretravail = DOMAIN db.heuretravail
               /\ DOMAIN db'.tache = DOMAIN db.tache
               /\ db'.photo = db.photo
               /\ db'.anomalie = db.anomalie
               /\ \A t \in DOMAIN db.tache :
                    db'.tache[t].heures_reelles = db.tache[t].heures_reelles
               /\ \A h \in DOMAIN db.heuretravail :
                    /\ db'.heuretravail[h].tache = db.heuretravail[h].tache
                    /\ db'.heuretravail[h].heures = db.heuretravail[h].heures]_vars

\* chantier 1 was deleted while its tasks had hour entries, photos or
\* anomalies, and a member who had logged hours was deleted too
C22_Witness ==
    /\ 1 \notin DOMAIN db.chantier
    /\ 1 \notin DOMAIN db.membre
    /\ DOMAIN db.tache = {3}
    /\ DOMAIN db.heuretravail = {2}
    /\ DOMAIN db.anomalie = {2}
    /\ DOMAIN db.equipe = {1, 2}

\* ------------------------------------------------------ creation of chantiers
\* the mutant of ChantiersSerializer_to_internal_value: cout_reel is taken
\* from the body like any other key
ChantiersSerializer_to_internal_value_tout(data) == data

\* to_internal_value of ChantiersSerializer: cout_reel is declared
\* read_only=True, its key is dropped from the body
ChantiersSerializer_to_internal_value(data) == [data EXCEPT !.cout_reel = {}]

\* bodies of POST /api/v1/chantiers/ (nom, adresse, codepostal and ville are
\* always given, chef never): the number is absent, taken or fresh,
\* the dates with the start before the end, the same day or after it, the
\* budget negative, zero or positive, cout_reel absent or 999.00
ChantierCreateBodies ==
    {[numero |-> n, chef |-> {}, actif |-> {}, date_debut |-> dd[1],
      date_fin_prevue |-> dd[2], budget_total |-> b, cout_reel |-> cr] :
        n \in {{}, {"CH-1"}, {"CH-3"}},
        dd \in {<<{1}, {2}>>, <<{2}, {2}>>, <<{2}, {1}>>},
        b \in {{-5}, {0}, {5}},
        cr \in {{}, {99900}}}

\* one chantier, CH-1, active or not
InitCreation ==
    /\ db_engine = "sqlite3"
    /\ \E a \in BOOLEAN :
         db = [user |-> [u \in Users |-> [is_staff |-> (u = 1)]],
               chantier |-> [c \in {1} |->
                   [numero |-> "CH-1", chef |-> {2}, actif |-> a, date_debut |-> 1,
                    date_fin_prevue |-> 2, budget_total |-> 5, cout_reel |-> 0,
                    cree_par |-> {1}]]]
    /\ seq = [tache |-> 1, heuretravail |-> 1, chantier |-> 2]
    /\ response = NoResponse
    /\ procs = <<>>

\* POST /api/v1/chantiers/ : is_valid, then perform_create saves the row with
\* cree_par = request.user
ChantiersViewSet_create ==
    \E user \in Users, data \in ChantierCreateBodies :
        LET valide == ChantiersSerializer_is_valid(db, data, FALSE)
            validated_data == ChantiersSerializer_to_internal_value(data)
            row == [numero |-> CHOOSE v \in validated_data.numero : TRUE,
                    chef |-> validated_data.chef,
                    actif |-> TRUE,
                    date_debut |-> CHOOSE v \in validated_data.date_debut : TRUE,
                    date_fin_prevue |-> CHOOSE v \in validated_data.date_fin_prevue : TRUE,
                    budget_total |-> CHOOSE v \in validated_data.budget_total : TRUE,
                    cout_reel |-> IF validated_data.cout_reel = {} THEN 0
                                  ELSE CHOOSE v \in validated_data.cout_reel : TRUE,
                    cree_par |-> {user}]
        IN  IF valide # 200
            THEN /\ response' = [op |-> "chantiers_create", status |-> valide,
                                 user |-> user, data |-> data, cible |-> {}]
                 /\ UNCHANGED <<db_engine, db, seq, procs>>
            ELSE /\ seq.chantier \in Chantiers
                 /\ db' = [db EXCEPT !.chantier =
                              [c \in DOMAIN db.chantier \cup {seq.chantier} |->
                                  IF c = seq.chantier THEN row ELSE db.chantier[c]]]
                 /\ seq' = [seq EXCEPT !.chantier = @ + 1]
                 /\ response' = [op |-> "chantiers_create", status |-> 201,
                                 user |-> user, data |-> data, cible |-> {seq.chantier}]
                 /\ UNCHANGED <<db_engine, procs>>

NextCreation == ChantiersViewSet_create

SpecCreation == InitCreation /\ [][NextCreation]_vars

\* the body of the create request of response' has every required key
CorpsComplet ==
    /\ response'.data.numero # {}
    /\ response'.data.date_debut # {}
    /\ response'.data.date_fin_prevue # {}
    /\ response'.data.budget_total # {}

\* the number of the body belongs to a chantier that exists
NumeroPris == \E c \in DOMAIN db.chantier : {db.chantier[c].numero} = response'.data.numero

\* the budget of the body is not positive
BudgetNonPositif == \E x \in response'.data.budget_total : x <= 0

\* the request was answered 400 and stored nothing
Refusee400 == response'.status = 400 /\ db' = db

\* the request was answered 201 and stored one chantier, created by the caller
Creee201 ==
    /\ response'.status = 201
    /\ \E c \in response'.cible :
         /\ DOMAIN db'.chantier = DOMAIN db.chantier \cup {c}
         /\ c \notin DOMAIN db.chantier
         /\ \A k \in DOMAIN db.chantier : db'.chantier[k] = db.chantier[k]
         /\ {db'.chantier[c].numero} = response'.data.numero
         /\ db'.chantier[c].cree_par = {response'.user}

\* C23 as stated: a create request is refused with 400 and stores nothing when
\* its number is taken, its planned end is before its start or its budget is
\* not positive; otherwise it is answered 201 and the caller is the creator.
C23_CreationFinAvantDebut ==
    [][(response'.op = "chantiers_create" /\ CorpsComplet) =>
         IF \/ NumeroPris
            \/ BudgetNonPositif
            \/ \E a \in response'.data.date_debut, b \in response'.data.date_fin_prevue :
                  b < a
         THEN Refusee400
         ELSE Creee201]_vars

\* C23 amended: the request is refused as well when the planned end is the
\* same day as the start; it is accepted when the end is after the start.
C23_CreationFinApresDebut ==
    [][(response'.op = "chantiers_create" /\ CorpsComplet) =>
         IF \/ NumeroPris
            \/ BudgetNonPositif
            \/ \E a \in response'.data.date_debut, b \in response'.data.date_fin_prevue :
                  b <= a
         THEN Refusee400
         ELSE Creee201]_vars

\* chantier 2 was created by user 3 with a fresh number
C23_Witness ==
    /\ response.op = "chantiers_create"
    /\ response.status = 201
    /\ response.user = 3
    /\ 2 \in DOMAIN db.chantier
    /\ db.chantier[2].numero = "CH-3"
    /\ db.chantier[2].cree_par = {3}

\* ------------------------------------------------ computed, read-only columns
\* to_internal_value of TacheSerializer: heures_reelles is in
\* Meta.read_only_fields (and editable=False), its key is dropped from the body
TacheSerializer_to_internal_value(data) == [data EXCEPT !.heures_reelles = {}]

\* ModelSerializer.update: every key of validated_data is set on the instance
\* (chef is nullable: its value is kept as a set)
ModelSerializer_update(row, validated_data) ==
    [k \in DOMAIN row |->
        IF k \in DOMAIN validated_data /\ validated_data[k] # {}
        THEN IF k = "chef" THEN validated_data[k]
             ELSE CHOOSE v \in validated_data[k] : TRUE
        ELSE row[k]]

\* bodies of PUT/PATCH /api/v1/chantiers/{id}/ carrying a cout_reel
ChantierUpdateBodies ==
    {[numero |-> n, chef |-> {}, actif |-> {}, date_debut |-> dd[1],
      date_fin_prevue |-> dd[2], budget_total |-> b, cout_reel |-> cr] :
        n \in {{}, {"CH-3"}},
        dd \in {<<{}, {}>>, <<{1}, {2}>>},
        b \in {{}, {5}},
        cr \in {{}, {99900}}}

\* bodies of POST /api/v1/taches/ and PUT/PATCH /api/v1/taches/{id}/
\* carrying a heures_reelles (the other required keys are always given)
TacheBodies ==
    {[lot |-> l, taux_horaire |-> tx, heures_reelles |-> hr] :
        l \in {{}, {1}}, tx \in {{}, {1025}}, hr \in {{}, {990}}}

\* Tache.taux_horaire default=50
taux_horaire_default == 5000

\* chantier 1 with a stored cost of 25.00, lots 1 and 2, and task 1 in lot 1
\* with 1.5 stored hours
InitLectureSeule ==
    /\ db_engine = "sqlite3"
    /\ db = [user |-> [u \in Users |-> [is_staff |-> (u = 1)]],
             chantier |-> [c \in {1} |->
                 [numero |-> "CH-1", chef |-> {2}, actif |-> TRUE, date_debut |-> 1,
                  date_fin_prevue |-> 2, budget_total |-> 5, cout_reel |-> 2500,
                  cree_par |-> {1}]],
             lot |-> {1, 2},
             tache |-> [t \in {1} |->
                 [lot |-> 1, taux_horaire |-> 10000, heures_reelles |-> 15]],
             heuretravail |-> [h \in {} |-> {}]]
    /\ seq = [tache |-> 2, heuretravail |-> 1, chantier |-> 2]
    /\ response = NoResponse
    /\ procs = <<>>

\* PUT (partial = FALSE) or PATCH (partial = TRUE) /api/v1/chantiers/{id}/ by
\* a staff user, with the body kept: is_valid, then serializer.save()
ChantiersViewSet_perform_update ==
    \E c \in ChantiersViewSet_queryset(db), partial \in BOOLEAN,
       data \in ChantierUpdateBodies :
        LET valide == ChantiersSerializer_is_valid(db, data, partial)
            validated_data == ChantiersSerializer_to_internal_value(data)
        IN  IF valide # 200
            THEN /\ response' = [op |-> "chantiers_perform_update", status |-> valide,
                                 data |-> data, cible |-> {c}]
                 /\ UNCHANGED <<db_engine, db, seq, procs>>
            ELSE /\ db' = [db EXCEPT !.chantier[c] =
                              ModelSerializer_update(@, validated_data)]
                 /\ response' = [op |-> "chantiers_perform_update", status |-> 200,
                                 data |-> data, cible |-> {c}]
                 /\ UNCHANGED <<db_engine, seq, procs>>

\* POST /api/v1/taches/ with the body kept: lot is required and names a lot
TachesViewSet_perform_create ==
    \E data \in TacheBodies :
        LET validated_data == TacheSerializer_to_internal_value(data)
            row == ModelSerializer_update(
                       [lot |-> 0, taux_horaire |-> taux_horaire_default,
                        heures_reelles |-> 0], validated_data)
        IN  IF data.lot = {} \/ ~(data.lot \subseteq db.lot)
            THEN /\ response' = [op |-> "taches_perform_create", status |-> 400,
                                 data |-> data, cible |-> {}]
                 /\ UNCHANGED <<db_engine, db, seq, procs>>
            ELSE /\ seq.tache \in TacheIds
                 /\ db' = [db EXCEPT !.tache =
                              [t \in DOMAIN db.tache \cup {seq.tache} |->
                                  IF t = seq.tache THEN row ELSE db.tache[t]]]
                 /\ seq' = [seq EXCEPT !.tache = @ + 1]
                 /\ response' = [op |-> "taches_perform_create", status |-> 201,
                                 data |-> data, cible |-> {seq.tache}]
                 /\ UNCHANGED <<db_engine, procs>>

\* PUT (partial = FALSE) or PATCH (partial = TRUE) /api/v1/taches/{id}/ with
\* the body kept; Tache.save recomputes nothing
TachesViewSet_perform_update ==
    \E t \in DOMAIN db.tache, partial \in BOOLEAN, data \in TacheBodies :
        LET validated_data == TacheSerializer_to_internal_value(data)
        IN  IF (data.lot = {} /\ ~partial) \/ ~(data.lot \subseteq db.lot)
            THEN /\ response' = [op |-> "taches_perform_update", status |-> 400,
                                 data |-> data, cible |-> {t}]
                 /\ UNCHANGED <<db_engine, db, seq, procs>>
            ELSE /\ db' = [db EXCEPT !.tache[t] =
                              ModelSerializer_update(@, validated_data)]
                 /\ response' = [op |-> "taches_perform_update", status |-> 200,
                                 data |-> data, cible |-> {t}]
                 /\ UNCHANGED <<db_engine, seq, procs>>

NextLectureSeule ==
    \/ ChantiersViewSet_create
    \/ ChantiersViewSet_perform_update
    \/ TachesViewSet_perform_create
    \/ TachesViewSet_perform_update

SpecLectureSeule == InitLectureSeule /\ [][NextLectureSeule]_vars

\* the create and update requests on chantiers and tasks
EcritureChantierOuTache ==
    response'.op \in {"chantiers_create", "chantiers_perform_update",
                      "taches_perform_create", "taches_perform_update"}

\* every stored cout_reel and heures_reelles is as before, a new row has 0
ColonnesCalculeesIntactes ==
    /\ \A c \in DOMAIN db'.chantier :
         db'.chantier[c].cout_reel =
            IF c \in DOMAIN db.chantier THEN db.chantier[c].cout_reel ELSE 0
    /\ \A t \in DOMAIN db'.tache :
         db'.tache[t].heures_reelles =
            IF t \in DOMAIN db.tache THEN db.tache[t].heures_reelles ELSE 0

\* C24: no create or update request on a chantier or a task changes a stored
\* cout_reel or heures_reelles, whatever the body gives for them (a row that
\* is created has 0).
C24_JamaisSaisis ==
    [][EcritureChantierOuTache => ColonnesCalculeesIntactes]_vars

\* an update of a chantier whose stored cost is 25.00 gave cout_reel 999.00,
\* was answered 200, and the stored cost is still 25.00
C24_Witness ==
    /\ response.op = "chantiers_perform_update"
    /\ response.status = 200
    /\ response.data.cout_reel = {99900}
    /\ \E c \in response.cible : db.chantier[c].cout_reel = 2500

\* ------------------------------------------------- moving an entry (C25)
\* the step is a completed update of an entry that changes the entry's task
EntreeDeplacee ==
    /\ response'.op = "heures_update"
    /\ response'.status \in Succes
    /\ \A h \in response'.heure :
         db'.heuretravail[h].tache # db.heuretravail[h].tache

\* C25: after an update that moves an entry from task A to task B, the stored
\* heures_reelles of A and of B are the sums of the hours of the entries now
\* attached to each (read at the one-decimal precision of the column), and the
\* stored cout_reel of both chantiers is the sum of their tasks' costs.
C25_DeplacementRecalcule ==
    [][EntreeDeplacee =>
         \A h \in response'.heure : \A t \in TachesTouchees(h) :
            /\ db'.tache[t].heures_reelles = RoundDiv(SumHeures(db', t), 10, db_engine)
            /\ db'.chantier[tache_chantier(db', t)].cout_reel * 10
                  = TotalCout(db', tache_chantier(db', t))]_vars

\* ------------------------------------------------- the validee key of a body
\* HeuresTravailSerializer.Meta.read_only_fields has validee_par and not
\* validee: a body's validee key is written to the row, its validee_par key
\* is dropped.  Bodies carry 0.25 h and a validee key absent, true or false.
BodyValidee == {{}, {TRUE}, {FALSE}}

\* the flag of entry h after a write whose body has the key validee
ecrire_validee(d, h, validee) ==
    [d EXCEPT !.validee = IF validee = {TRUE} THEN @ \cup {h}
                          ELSE IF validee = {FALSE} THEN @ \ {h}
                          ELSE @]

\* POST /api/v1/heures/ by a user, the body naming a task
HeuresTravailViewSet_perform_create ==
    \E user \in Users, t \in DOMAIN db.tache, validee \in BodyValidee :
        /\ is_valid(db, {t}, {25}, FALSE)
        /\ seq.heuretravail <= MaxHeures
        /\ db' = HeureTravail_save(ecrire_validee(db, seq.heuretravail, validee),
                                   seq.heuretravail, [tache |-> t, heures |-> 25],
                                   db_engine)
        /\ seq' = [seq EXCEPT !.heuretravail = @ + 1]
        /\ response' = RespUser("heures_create", "POST", 201, user, seq.heuretravail)
        /\ UNCHANGED <<db_engine, procs>>

\* PATCH /api/v1/heures/{id}/ {validee: ...} by a user
HeuresTravailViewSet_perform_update ==
    \E user \in Users, h \in DOMAIN db.heuretravail, validee \in BodyValidee :
        /\ is_valid(db, {}, {}, TRUE)
        /\ db' = HeureTravail_save(ecrire_validee(db, h, validee), h,
                                   db.heuretravail[h], db_engine)
        /\ response' = RespUser("heures_update", "PATCH", 200, user, h)
        /\ UNCHANGED <<db_engine, seq, procs>>

\* POST /api/v1/taches/{id}/heures/ by a user, the body naming the task too:
\* serializer.save(tache=tache)
TachesViewSet_heures_post ==
    \E user \in Users, t \in DOMAIN db.tache, validee \in BodyValidee :
        /\ is_valid(db, {t}, {25}, FALSE)
        /\ seq.heuretravail <= MaxHeures
        /\ db' = HeureTravail_save(ecrire_validee(db, seq.heuretravail, validee),
                                   seq.heuretravail, [tache |-> t, heures |-> 25],
                                   db_engine)
        /\ seq' = [seq EXCEPT !.heuretravail = @ + 1]
        /\ response' = RespUser("taches_heures", "POST", 201, user, seq.heuretravail)
        /\ UNCHANGED <<db_engine, procs>>

NextValidee ==
    \/ HeuresTravailViewSet_perform_create
    \/ HeuresTravailViewSet_perform_update
    \/ TachesViewSet_heures_post
    \/ HeuresTravailViewSet_valider

SpecValidee == InitValider /\ [][NextValidee]_vars

\* C26: every entry whose validee flag is true has a validee_par, and a step
\* that sets the flag of an entry is a request of the chef of the entry's
\* chantier or of a staff user.
C26_ValideeParLeChef ==
    /\ [](db.validee \subseteq DOMAIN db.validee_par)
    /\ [][\A h \in db'.validee \ db.validee :
             valider_autorise(db', response'.user, h)]_vars

\* ------------------------------------------------------ life of an anomaly
\* number of Anomalie rows ever inserted (primary keys 1..MaxAnomalies)
MaxAnomalies == 2

\* bodies of POST /api/v1/taches/{id}/signaler_anomalie/ (titre, description
\* and severite are always given): AnomalieSerializer takes tache (required),
\* statut and date_resolution_reelle from the body
AnomalieBodies ==
    {[tache |-> t, statut |-> st, date_resolution_reelle |-> dr] :
        t \in {{}, {1}},
        st \in {{}, {"EN_COURS"}, {"FERMEE"}},
        dr \in {{}, {1}}}

\* anomaly 1 on task 1, reported by user 3, open or deferred
InitCycle ==
    /\ db_engine = "sqlite3"
    /\ \E st \in {"OUVERTE", "REPORTEE"}, resp \in {{}, {3}} :
         db = [user |-> [u \in Users |-> [is_staff |-> (u = 1)]],
               tache |-> [t \in {1} |-> [lot |-> 1]],
               anomalie |-> [a \in {1} |->
                   [tache |-> 1, titre |-> "fissure", severite |-> "MAJEURE",
                    signalee_par |-> {3}, statut |-> st,
                    responsable_correction |-> resp,
                    date_resolution_reelle |-> {}]]]
    /\ seq = [tache |-> 2, heuretravail |-> 1, anomalie |-> 2]
    /\ response = NoResponse
    /\ procs = <<>>

\* POST /api/v1/taches/{id}/signaler_anomalie/ : is_valid, then
\* serializer.save(tache=tache, signalee_par=request.user)
TachesViewSet_signaler_anomalie ==
    \E user \in Users, t \in DOMAIN db.tache, data \in AnomalieBodies :
        IF data.tache = {} \/ ~(data.tache \subseteq DOMAIN db.tache)
        THEN /\ response' = [op |-> "taches_signaler_anomalie", status |-> {400},
                             cible |-> {}, data |-> data]
             /\ UNCHANGED <<db_engine, db, seq, procs>>
        ELSE LET row == [tache |-> t, titre |-> "fissure", severite |-> "MAJEURE",
                         signalee_par |-> {user},
                         statut |-> IF data.statut = {} THEN "OUVERTE"
                                    ELSE CHOOSE v \in data.statut : TRUE,
                         responsable_correction |-> {},
                         date_resolution_reelle |-> data.date_resolution_reelle]
             IN  /\ seq.anomalie <= MaxAnomalies
                 /\ db' = [db EXCEPT !.anomalie =
                              [a \in DOMAIN db.anomalie \cup {seq.anomalie} |->
                                  IF a = seq.anomalie THEN row ELSE db.anomalie[a]]]
                 /\ seq' = [seq EXCEPT !.anomalie = @ + 1]
                 /\ response' = [op |-> "taches_signaler_anomalie", status |-> {201},
                                 cible |-> {seq.anomalie}, data |-> data]
                 /\ UNCHANGED <<db_engine, procs>>

NextCycle ==
    \/ TachesViewSet_signaler_anomalie
    \/ AnomaliesViewSet_assigner
    \/ AnomaliesViewSet_fermer

SpecCycle == InitCycle /\ [][NextCycle]_vars

\* C27: after any sequence of reports, assignments and closures, an anomaly
\* has the status closed if and only if its actual resolution date is set.
C27_FermeeSsiDate ==
    \A a \in DOMAIN db.anomalie :
        db.anomalie[a].statut = "FERMEE" <=> db.anomalie[a].date_resolution_reelle # {}

\* ------------------------------------------- late filter and lateness flag
\* C28: the task listing with en_retard=true returns exactly the tasks whose
\* serialized lateness flag is true on the same day, whatever their status,
\* and the listing with en_retard=false returns exactly the other tasks.
C28_FiltreEgalDrapeau ==
    response.op = "taches_list" =>
      /\ response.en_retard
           => response.results =
                 {t \in DOMAIN db.tache : est_en_retard(db.tache[t], response.today)}
      /\ ~response.en_retard
           => response.results =
                 DOMAIN db.tache \ TacheFilter_filter_en_retard(
                     db, TachesViewSet_get_queryset(db), TRUE, response.today)

\* ------------------------------------------------------ update of a chantier
\* bodies of PUT/PATCH /api/v1/chantiers/{id}/ that leave chef and actif as
\* they are: the number is absent, CH-1 or fresh, the dates absent, with the
\* start before the end or the same day, the budget absent or positive
ChantierMiseAJourBodies ==
    {[numero |-> n, chef |-> {}, actif |-> {}, date_debut |-> dd[1],
      date_fin_prevue |-> dd[2], budget_total |-> b] :
        n \in {{}, {"CH-1"}, {"CH-3"}},
        dd \in {<<{}, {}>>, <<{1}, {2}>>, <<{2}, {2}>>},
        b \in {{}, {5}}}

\* UpdateModelMixin.update and partial_update as ChantiersViewSet inherits
\* them, with the body kept: get_object, is_valid(raise_exception=True), then
\* perform_update saves the row
UpdateModelMixin_update ==
    \E user \in Users, c \in Chantiers, partial \in BOOLEAN, data \in ChantierMiseAJourBodies :
        LET method == IF partial THEN "PATCH" ELSE "PUT"
            refus  == ChantiersViewSet_get_object(db, user, method, c)
            valide == ChantiersSerializer_is_valid(db, data, partial)
            status == IF refus # {} THEN refus ELSE {valide}
        IN  /\ response' = [op |-> "update", method |-> method, status |-> status,
                            user |-> user, cible |-> c, data |-> data]
            /\ db' = IF status = {200}
                     THEN [db EXCEPT !.chantier[c] = ChantiersSerializer_update(@, data)]
                     ELSE db
            /\ UNCHANGED <<db_engine, seq, procs>>

NextMiseAJour == UpdateModelMixin_update

SpecMiseAJour == InitChantiers /\ [][NextMiseAJour]_vars

\* the body of the update of response' gives no number or the number the
\* addressed chantier already has
GardeSonNumero == response'.data.numero \subseteq {ChantierVise.numero}

\* a PUT gives every required key
CorpsSelonMethode ==
    response'.method = "PUT" =>
        /\ response'.data.numero # {}
        /\ response'.data.date_debut # {}
        /\ response'.data.date_fin_prevue # {}
        /\ response'.data.budget_total # {}

\* the dates and the budget the chantier would have after the update (the
\* body's value where it gives one, the stored value otherwise) are valid, and
\* the chef the body names exists
DatesEtBudgetValides ==
    LET apres == ChantiersSerializer_update(ChantierVise, response'.data)
    IN  /\ apres.date_debut < apres.date_fin_prevue
        /\ apres.budget_total > 0
        /\ response'.data.chef \subseteq DOMAIN db.user

\* C29 as stated: an update (PUT or PATCH) of an active chantier by its chef
\* or by staff that keeps the chantier's own number and leaves it with valid
\* dates and budget is answered 200, whether or not the body resends the
\* number and whether or not it gives the dates and the budget.
C29_MiseAJourAcceptee ==
    [][(/\ response'.op = "update"
        /\ response'.cible \in ChantiersViewSet_queryset(db)
        /\ ChefOuStaff
        /\ GardeSonNumero
        /\ CorpsSelonMethode
        /\ DatesEtBudgetValides)
       => response'.status = {200}]_vars

\* ------------------------------------------------ scale of the hour columns
\* the value Tache.calculer_heures_reelles returns: self.heures_reelles as
\* assigned, Decimal(str(total)), the sum at the scale of the entries
\* (hundredths), not the value the column keeps
calculer_heures_reelles_retour(d, t) == SumHeures(d, t)

\* the sum of the entries of each task of the chantier times the task's rate,
\* in ten-thousandths
CoutExact(d, c) ==
    SumOver(chantier_taches(d, c),
            [t \in DOMAIN d.tache |-> SumHeures(d, t) * d.tache[t].taux_horaire])

\* C30 as stated: once an entry is created, the stored heures_reelles of its
\* task (one decimal place) equal the exact sum of the task's entries (two
\* decimal places) and the value the recomputation returned, and the stored
\* cout_reel of the chantier equals the exact sums times the hourly rates.
C30_SansPerteDArrondi ==
    [][(response'.op = "heures_create" /\ response'.status = {201}) =>
         \A h \in response'.heure :
            LET t == db'.heuretravail[h].tache
                c == tache_chantier(db', t)
            IN  /\ db'.tache[t].heures_reelles * 10 = SumHeures(db', t)
                /\ db'.tache[t].heures_reelles * 10 = calculer_heures_reelles_retour(db', t)
                /\ db'.chantier[c].cout_reel * 100 = CoutExact(db', c)]_vars

====
